---- MODULE Spec2Model ----
(***************************************************************************)
(* A model of the two GRAB level editors of this repository.               *)
(*                                                                         *)
(*   LevelEditor (src/GrabEditorTest.py): the hierarchical "schema 2"      *)
(*   editor: a forest of SceneNode with integer ids and Group children.    *)
(*   MainWindow (src/GRAB_Level_Editor.py): the flat "schema 1" editor,    *)
(*   and its SceneNode.from_json / SceneNode.to_json codec.                *)
(*                                                                         *)
(* Floats are fixed-point tenths: 0.5 is 5, 1.0 is 10, 5.0 is 50.          *)
(* A Python reference to a node of the forest is the node's path (the      *)
(* sequence of list indices leading to it); a reference to an object that  *)
(* is no longer in the forest carries the object itself.                   *)
(***************************************************************************)
EXTENDS Integers, Sequences, FiniteSets, TLC

VARIABLES
    app,              \* which program runs: "LevelEditor", "MainWindow" or "codec"
    \* ---- LevelEditor (schema 2)
    scene_nodes,      \* self.scene_nodes: the forest
    scene_data,       \* self.scene_data: level metadata and the levelNodes of the file
    level_file_path,  \* self.level_file_path
    _editing_node,    \* self._editing_node: a reference, or None
    next_node_id,     \* self.next_node_id
    node_list,        \* self.node_list: the item data (node ids) of the QListWidget
    current_item,     \* self.node_list.currentItem(): a row of node_list, 0 for none
    form,             \* the values shown by the widgets wired to _update_node_prop
    camera_pos,       \* self.viewport.camera_pos
    \* ---- MainWindow (schema 1); it shares scene_data, _editing_node, node_list,
    \*      current_item, form and dialog with the other editor
    self_nodes,       \* self.nodes: the flat list of SceneNode
    current_path,     \* self.current_path
    \* ---- SceneNode.from_json / SceneNode.to_json on their own
    obj,              \* the JSON object handed to from_json
    parsed,           \* what from_json gave: Raised, Returned(node), or Pending
    emitted,          \* what to_json gave for the parsed node, or Pending
    \* ---- both editors
    dialog,           \* the message box shown by the most recent handler
    issued,           \* ids returned by _get_next_id: by the most recent handler, and the maximum before it
    ops               \* how many event handlers have run since the window was constructed

le_vars == <<scene_nodes, scene_data, level_file_path, _editing_node, next_node_id,
             node_list, current_item, form, camera_pos, dialog, issued>>

mw_vars == <<self_nodes, current_path>>

codec_vars == <<obj, parsed, emitted>>

vars == <<app, ops, le_vars, mw_vars, codec_vars>>

(***************************************************************************)
(* Bounds of the model.                                                    *)
(***************************************************************************)
MaxOps == 4        \* the editors are explored for this many user operations after construction

MaxKeys == 2       \* the nested mapping of a node object given to from_json has at most this many keys

MaxNodeId == 3     \* the ids of the forests that _get_next_id is tried on are 1..MaxNodeId

(***************************************************************************)
(* Generic helpers.                                                        *)
(***************************************************************************)
Max(a, b) == IF a >= b THEN a ELSE b

DelAt(s, i) == SubSeq(s, 1, i - 1) \o SubSeq(s, i + 1, Len(s))

Get(d, k, default) == IF k \in DOMAIN d THEN d[k] ELSE default

RECURSIVE SeqMax(_)
SeqMax(s) == IF s = <<>> THEN 0 ELSE Max(Head(s), SeqMax(Tail(s)))

IsPrefix(p, q) == Len(p) <= Len(q) /\ SubSeq(q, 1, Len(p)) = p

(***************************************************************************)
(* Schema 2: constants and data structures (src/GrabEditorTest.py).        *)
(***************************************************************************)
SHAPES ==
    ("cube" :> 1000) @@ ("sphere" :> 1001) @@ ("cylinder" :> 1002) @@ ("pyramid" :> 1003) @@
    ("prism" :> 1004) @@ ("cone" :> 1005) @@ ("square pyramid" :> 1006)

\* a faulty variant of the material table, numbered from 1
MATERIALS_FROM_ONE ==
    ("default" :> 1) @@ ("grabbable" :> 2) @@ ("crumbling" :> 3) @@ ("death" :> 4) @@
    ("wood" :> 5) @@ ("colored grabbable" :> 6) @@ ("grapple hook" :> 7) @@ ("lava death" :> 8)

MATERIALS ==
    ("default" :> 0) @@ ("grabbable" :> 1) @@ ("crumbling" :> 2) @@ ("death" :> 3) @@
    ("wood" :> 4) @@ ("colored grabbable" :> 5) @@ ("grapple hook" :> 6) @@ ("lava death" :> 7)

\* {v: k for k, v in TABLE.items()}.get(code, default)
ReverseGet(table, code, default) ==
    IF \E k \in DOMAIN table : table[k] = code
    THEN CHOOSE k \in DOMAIN table : table[k] = code
    ELSE default

Vector(x, y, z) == [x |-> x, y |-> y, z |-> z]

Quaternion(x, y, z, w) == [x |-> x, y |-> y, z |-> z, w |-> w]

Color(r, g, b, a) == [r |-> r, g |-> g, b |-> b, a |-> a]

\* SceneNode(node_id=...): the dataclass with its defaults
SceneNode(id) ==
    [node_id |-> id, parent_id |-> 0, node_type |-> "LevelNodeStatic", shape |-> "cube",
     position |-> Vector(0, 0, 0), scale |-> Vector(10, 10, 10),
     rotation |-> Quaternion(0, 0, 0, 10),
     material |-> "default", color |-> Color(10, 10, 10, 10),
     stable_time |-> 10, respawn_time |-> 50, radius |-> 5,
     text |-> "Enter Text Here", children |-> <<>>]

(***************************************************************************)
(* JSON values whose type the decoder depends on are tagged: a mapping is  *)
(* [t |-> "dict", v |-> <the mapping>], a list [t |-> "list", v |-> <<>>]. *)
(***************************************************************************)
JDict(m) == [t |-> "dict", v |-> m]

JList(l) == [t |-> "list", v |-> l]

IsMapping(j) == j.t = "dict"

\* The outcome of a call that may raise.
Raised == [ok |-> FALSE]

Returned(x) == [ok |-> TRUE, val |-> x]

dict_to_vector(d) ==
    IF ~IsMapping(d) THEN Raised    \* d.get: AttributeError
    ELSE Returned(Vector(Get(d.v, "x", 0), Get(d.v, "y", 0), Get(d.v, "z", 0)))

dict_to_quaternion(d) ==
    IF ~IsMapping(d) THEN Raised
    ELSE Returned(Quaternion(Get(d.v, "x", 0), Get(d.v, "y", 0), Get(d.v, "z", 0), Get(d.v, "w", 10)))

dict_to_color(d) ==
    IF ~IsMapping(d) THEN Raised
    ELSE Returned(Color(Get(d.v, "r", 10), Get(d.v, "g", 10), Get(d.v, "b", 10), Get(d.v, "a", 10)))

(***************************************************************************)
(* node_from_dict(d, next_id).  Every child of a group is decoded with the *)
(* same next_id as the group itself.                                       *)
(***************************************************************************)
ChildNextId(next_id) == next_id

RECURSIVE node_from_dict(_, _)
RECURSIVE ChildrenFromDicts(_, _, _)
\* a faulty variant of the loop that leaves out child_node.parent_id = node.node_id
RECURSIVE ChildrenFromDictsUnparented(_, _, _)
ChildrenFromDictsUnparented(child_dicts, next_id, parent) ==
    IF child_dicts = <<>> THEN Returned(<<>>)
    ELSE LET c == node_from_dict(Head(child_dicts), ChildNextId(next_id)) IN
         IF ~c.ok THEN Raised
         ELSE LET rest == ChildrenFromDictsUnparented(Tail(child_dicts), next_id, parent) IN
              IF ~rest.ok THEN Raised
              ELSE Returned(<<c.val>> \o rest.val)

\* the loop over node_data.get('childNodes', []): the children decoded so far, or Raised
ChildrenFromDicts(child_dicts, next_id, parent) ==
    IF child_dicts = <<>> THEN Returned(<<>>)
    ELSE LET c == node_from_dict(Head(child_dicts), ChildNextId(next_id)) IN
         IF ~c.ok THEN Raised
         ELSE LET rest == ChildrenFromDicts(Tail(child_dicts), next_id, parent) IN
              IF ~rest.ok THEN Raised
              ELSE Returned(<<[c.val EXCEPT !.parent_id = parent]>> \o rest.val)

node_from_dict(d, next_id) ==
    IF "Node" \notin DOMAIN d THEN Raised                  \* d['Node']: KeyError
    ELSE IF DOMAIN d.Node = {} THEN Raised                 \* next(iter({})): StopIteration
    ELSE
    LET node_type_name == CHOOSE k \in DOMAIN d.Node : TRUE
        node_data == d.Node[node_type_name]
        n0 == SceneNode(next_id)
        has_color == "color" \in DOMAIN node_data
        col == IF has_color THEN dict_to_color(node_data.color) ELSE Returned(n0.color)
        kids == IF node_type_name = "groupResponse"
                THEN ChildrenFromDicts(Get(node_data, "childNodes", <<>>), next_id, n0.node_id)
                ELSE Returned(<<>>)
        \* the if / elif chain on node_type_name
        n1 == CASE node_type_name = "startResponse" -> Returned([n0 EXCEPT !.node_type = "LevelNodeStart"])
                [] node_type_name = "finishResponse" -> Returned([n0 EXCEPT !.node_type = "LevelNodeFinish"])
                [] node_type_name = "staticResponse" ->
                     IF ~col.ok THEN Raised
                     ELSE Returned([n0 EXCEPT !.node_type = "LevelNodeStatic",
                                              !.material = ReverseGet(MATERIALS, Get(node_data, "material", 0), "default"),
                                              !.color = col.val])
                [] node_type_name = "crumblingResponse" ->
                     Returned([n0 EXCEPT !.node_type = "LevelNodeCrumbling",
                                         !.stable_time = Get(node_data, "stableTime", 10),
                                         !.respawn_time = Get(node_data, "respawnTime", 50)])
                [] node_type_name = "signResponse" ->
                     IF ~col.ok THEN Raised
                     ELSE Returned([n0 EXCEPT !.node_type = "LevelNodeSign",
                                              !.text = Get(node_data, "text", "Enter Text Here"),
                                              !.color = col.val])
                [] node_type_name = "groupResponse" ->
                     IF ~kids.ok THEN Raised
                     ELSE Returned([n0 EXCEPT !.node_type = "LevelNodeGroup", !.children = kids.val])
                [] OTHER -> Returned(n0)
    IN
    IF ~n1.ok THEN Raised
    ELSE
    LET n2 == IF n1.val.node_type \in {"LevelNodeStart", "LevelNodeFinish"}
              THEN [n1.val EXCEPT !.radius = Get(node_data, "radius", 5)]
              ELSE n1.val
        pos == IF "position" \in DOMAIN node_data THEN dict_to_vector(node_data.position) ELSE Returned(n2.position)
        rot == IF "rotation" \in DOMAIN node_data THEN dict_to_quaternion(node_data.rotation) ELSE Returned(n2.rotation)
        scl == IF "scale" \in DOMAIN node_data THEN dict_to_vector(node_data.scale) ELSE Returned(n2.scale)
    IN
    IF ~pos.ok \/ ~rot.ok \/ ~scl.ok THEN Raised
    ELSE Returned([n2 EXCEPT !.position = pos.val, !.rotation = rot.val, !.scale = scl.val,
                             !.shape = IF "shape" \in DOMAIN node_data
                                       THEN ReverseGet(SHAPES, Get(node_data, "shape", 1000), "cube")
                                       ELSE n2.shape])

(***************************************************************************)
(* The forest: references, lookup and removal.                             *)
(***************************************************************************)
None == [kind |-> "none"]

\* a reference to the node of the forest at this path
In(path) == [kind |-> "in", path |-> path]

\* a reference to an object that the forest no longer holds
Out(node) == [kind |-> "out", node |-> node]

RECURSIVE NodeAt(_, _)
NodeAt(nodes, path) ==
    IF Len(path) = 1 THEN nodes[path[1]]
    ELSE NodeAt(nodes[path[1]].children, Tail(path))

RECURSIVE ReplaceAt(_, _, _)
ReplaceAt(nodes, path, node) ==
    IF Len(path) = 1 THEN [nodes EXCEPT ![path[1]] = node]
    ELSE [nodes EXCEPT ![path[1]].children = ReplaceAt(nodes[path[1]].children, Tail(path), node)]

\* the object a reference denotes
Deref(nodes, ref) == IF ref.kind = "in" THEN NodeAt(nodes, ref.path) ELSE ref.node

\* what a reference denotes once the list it pointed into is dropped (self.scene_nodes = [])
Detach(nodes, ref) == IF ref.kind = "in" THEN Out(NodeAt(nodes, ref.path)) ELSE ref

\* what a reference denotes once the node at path `gone` is deleted from its list
AfterDel(nodes, ref, gone) ==
    IF ref.kind # "in" THEN ref
    ELSE IF IsPrefix(gone, ref.path) THEN Out(NodeAt(nodes, ref.path))
    ELSE LET k == Len(gone) IN
         IF Len(ref.path) >= k /\ SubSeq(ref.path, 1, k - 1) = SubSeq(gone, 1, k - 1) /\ ref.path[k] > gone[k]
         THEN In([ref.path EXCEPT ![k] = @ - 1])
         ELSE ref

\* a faulty variant of find_max_id that looks at the root nodes only
find_max_id_of_roots(nodes) == SeqMax([i \in 1..Len(nodes) |-> nodes[i].node_id])

\* LevelEditor._get_next_id.find_max_id
RECURSIVE find_max_id(_)
find_max_id(nodes) ==
    IF nodes = <<>> THEN 0
    ELSE LET node == Head(nodes)
             own == IF node.node_type = "LevelNodeGroup"
                    THEN Max(node.node_id, find_max_id(node.children))
                    ELSE node.node_id
         IN Max(own, find_max_id(Tail(nodes)))

\* LevelEditor._find_node_by_id: the first match in depth-first order, <<>> for None
RECURSIVE FindFrom(_, _, _)
FindFrom(node_id, nodes, i) ==
    IF i > Len(nodes) THEN <<>>
    ELSE IF nodes[i].node_id = node_id THEN <<i>>
    ELSE LET found == IF nodes[i].node_type = "LevelNodeGroup"
                      THEN FindFrom(node_id, nodes[i].children, 1)
                      ELSE <<>>
         IN IF found # <<>> THEN <<i>> \o found ELSE FindFrom(node_id, nodes, i + 1)

_find_node_by_id(node_id, nodes) == FindFrom(node_id, nodes, 1)

\* a faulty variant of the removal that deletes a matching root node only and leaves its
\* children in its place
RemoveKeepingChildren(node_id, nodes, i) ==
    IF \E k \in i..Len(nodes) : nodes[k].node_id = node_id
    THEN LET k == CHOOSE k \in i..Len(nodes) :
                      /\ nodes[k].node_id = node_id
                      /\ \A j \in i..(k - 1) : nodes[j].node_id # node_id
         IN [found |-> TRUE,
             nodes |-> SubSeq(nodes, 1, k - 1) \o nodes[k].children \o SubSeq(nodes, k + 1, Len(nodes))]
    ELSE [found |-> FALSE, nodes |-> nodes]

\* LevelEditor._remove_node_by_id: the list after `del nodes[i]` at the first match
RECURSIVE RemoveFrom(_, _, _)
RemoveFrom(node_id, nodes, i) ==
    IF i > Len(nodes) THEN [found |-> FALSE, nodes |-> nodes]
    ELSE IF nodes[i].node_id = node_id THEN [found |-> TRUE, nodes |-> DelAt(nodes, i)]
    ELSE LET sub == IF nodes[i].node_type = "LevelNodeGroup"
                    THEN RemoveFrom(node_id, nodes[i].children, 1)
                    ELSE [found |-> FALSE, nodes |-> <<>>]
         IN IF sub.found
            THEN [found |-> TRUE, nodes |-> [nodes EXCEPT ![i].children = sub.nodes]]
            ELSE RemoveFrom(node_id, nodes, i + 1)

_remove_node_by_id(node_id, nodes) == RemoveFrom(node_id, nodes, 1)

\* LevelEditor._update_ui_from_scene.populate_list: the item data, in list order
RECURSIVE populate_list(_)
populate_list(nodes) ==
    IF nodes = <<>> THEN <<>>
    ELSE LET node == Head(nodes) IN
         <<node.node_id>>
         \o (IF node.node_type = "LevelNodeGroup" /\ node.children # <<>>
             THEN populate_list(node.children) ELSE <<>>)
         \o populate_list(Tail(nodes))

(***************************************************************************)
(* LevelEditor's methods.  A method takes the editor's state s (a record   *)
(* of the fields below) and yields the state it leaves behind.             *)
(*   s.editing is self._editing_node; s.returned collects what             *)
(*   _get_next_id returned during the handler; s.fresh tells that the      *)
(*   handler replaced the scene (new_level, open_level).                   *)
(***************************************************************************)
LE ==
    [scene_nodes |-> scene_nodes, scene_data |-> scene_data,
     level_file_path |-> level_file_path, editing |-> _editing_node,
     next_node_id |-> next_node_id, node_list |-> node_list,
     current_item |-> current_item, form |-> form,
     dialog |-> "none", returned |-> <<>>, fresh |-> FALSE]

\* scene_data as built by __init__ and new_level
DefaultSceneData == [title |-> "New Level", levelNodes |-> <<>>]

\* a faulty variant of _get_next_id that numbers a new node by the count of the root nodes
_get_next_id_by_count(s) ==
    [s EXCEPT !.next_node_id = Len(s.scene_nodes) + 1, !.returned = Append(@, Len(s.scene_nodes) + 1)]

_get_next_id(s) ==
    LET id == IF s.scene_nodes = <<>> THEN 1 ELSE find_max_id(s.scene_nodes) + 1
    IN [s EXCEPT !.next_node_id = id, !.returned = Append(@, id)]

\* write `node` over the object that s.editing refers to
StoreEdited(s, node) ==
    IF s.editing.kind = "in"
    THEN [s EXCEPT !.scene_nodes = ReplaceAt(@, s.editing.path, node)]
    ELSE [s EXCEPT !.editing = Out(node)]

\* a faulty variant of the end of _update_ui_from_scene that keeps the selection
KeepSelection(s) == s

\* on_node_selected(None): lines 653-662 with item = None
ClearSelection(s) == [s EXCEPT !.editing = None]

\* _update_ui_from_scene: the level info widgets (of which the model keeps title_input),
\* the node list, then on_node_selected(None)
_update_ui_from_scene(s) ==
    ClearSelection([s EXCEPT !.form.title_input = s.scene_data.title,
                             !.node_list = populate_list(s.scene_nodes), !.current_item = 0])

\* a faulty variant of the type guards that lets every field through
PropValidForAnyType(prop, node_type) == TRUE

\* the type guards of _update_node_prop
PropValidFor(prop, node_type) ==
    CASE prop = "shape" -> node_type \in {"LevelNodeStatic", "LevelNodeCrumbling", "LevelNodeSign"}
      [] prop = "material" -> node_type = "LevelNodeStatic"
      [] prop = "text" -> node_type = "LevelNodeSign"
      [] prop \in {"stable_time", "respawn_time"} -> node_type = "LevelNodeCrumbling"
      [] prop = "radius" -> node_type \in {"LevelNodeStart", "LevelNodeFinish"}
      [] OTHER -> FALSE

_update_node_prop(s, prop, value) ==
    IF s.editing.kind = "none" THEN s
    ELSE LET node == Deref(s.scene_nodes, s.editing)
             s1 == IF PropValidFor(prop, node.node_type)
                   THEN StoreEdited(s, [node EXCEPT ![prop] = value])
                   ELSE s
         IN _update_ui_from_scene(s1)

\* widget.setValue / setCurrentText / setText: the widget's changed-signal is
\* connected to _update_node_prop (lines 420-426) and fires when the value changes
SetWidget(s, prop, value) ==
    IF s.form[prop] = value THEN s
    ELSE _update_node_prop([s EXCEPT !.form[prop] = value], prop, value)

\* the type-specific rows that on_node_selected fills in, in order (lines 688-707)
WidgetRows(node) ==
    (IF node.node_type \in {"LevelNodeStatic", "LevelNodeCrumbling", "LevelNodeSign"}
     THEN <<"shape">> ELSE <<>>)
    \o (CASE node.node_type = "LevelNodeStatic" -> <<"material">>
          [] node.node_type = "LevelNodeCrumbling" -> <<"stable_time", "respawn_time">>
          [] node.node_type \in {"LevelNodeStart", "LevelNodeFinish"} -> <<"radius">>
          [] node.node_type = "LevelNodeSign" -> <<"text">>
          [] OTHER -> <<>>)

RECURSIVE FillRows(_, _, _)
FillRows(s, node, rows) ==
    IF rows = <<>> THEN s
    ELSE FillRows(SetWidget(s, Head(rows), node[Head(rows)]), node, Tail(rows))

\* on_node_selected(item) for the item at `row` of the list
on_node_selected(s, row) ==
    LET s0 == ClearSelection(s)
        path == _find_node_by_id(s.node_list[row], s.scene_nodes)
    IN IF path = <<>> THEN s0           \* node.node_id on None: AttributeError ends the handler
       ELSE LET node == NodeAt(s.scene_nodes, path)
            IN FillRows([s0 EXCEPT !.editing = In(path)], node, WidgetRows(node))

_update_node_vector(s, prop_name, coord, value) ==
    IF s.editing.kind = "none" THEN s
    ELSE LET node == Deref(s.scene_nodes, s.editing)
         IN StoreEdited(s, [node EXCEPT ![prop_name][coord] = value])

_update_node_rotation(s, value, axis) ==
    IF s.editing.kind = "none" THEN s
    ELSE LET node == Deref(s.scene_nodes, s.editing)
         IN IF axis \in {"x", "y", "z"}
            THEN StoreEdited(s, [node EXCEPT !.rotation[axis] = value])
            ELSE s

\* on_pick_node_color('color'); c is the QColor of the dialog, invalid when it is cancelled
on_pick_node_color(s, c) ==
    IF s.editing.kind = "none" THEN s
    ELSE IF ~c.valid THEN s
    ELSE StoreEdited(s, [Deref(s.scene_nodes, s.editing) EXCEPT !.color = Color(c.r, c.g, c.b, c.a)])

\* the row of the first item whose data is new_id (the loop of lines 738-743), 0 if none
FirstRowOf(list, new_id) ==
    IF \E i \in 1..Len(list) : list[i] = new_id
    THEN CHOOSE i \in 1..Len(list) : list[i] = new_id /\ \A j \in 1..(i - 1) : list[j] # new_id
    ELSE 0

add_new_node(s, node_type, shape, position, scale, material) ==
    LET s1 == _get_next_id(s)
        new_id == s1.next_node_id
        n0 == [SceneNode(new_id) EXCEPT !.node_type = node_type, !.shape = shape,
                                        !.position = position, !.scale = scale,
                                        !.material = material]
        new_node == IF node_type \in {"LevelNodeStart", "LevelNodeFinish"}
                    THEN [n0 EXCEPT !.scale = Vector(10, 10, 10), !.material = "default"]
                    ELSE n0
        s2 == _update_ui_from_scene([s1 EXCEPT !.scene_nodes = Append(@, new_node)])
        row == FirstRowOf(s2.node_list, new_id)
    IN IF row = 0 THEN s2
       ELSE on_node_selected([s2 EXCEPT !.current_item = row], row)

\* a faulty variant of delete_selected_node that leaves out lines 756-757: the selection
\* is not cleared and the node list is not rebuilt
delete_keeping_selection(s, answer) ==
    IF s.current_item = 0 THEN [s EXCEPT !.dialog = "Please select a node to delete."]
    ELSE LET node_id == s.node_list[s.current_item]
             gone == _find_node_by_id(node_id, s.scene_nodes)
         IN IF answer # "Yes" THEN [s EXCEPT !.dialog = "Confirm Delete"]
            ELSE [s EXCEPT !.scene_nodes = _remove_node_by_id(node_id, @).nodes,
                           !.editing = IF gone = <<>> THEN @ ELSE AfterDel(s.scene_nodes, @, gone),
                           !.dialog = "Confirm Delete"]

\* the answer is that of the "Confirm Delete" question
delete_selected_node(s, answer) ==
    IF s.current_item = 0 THEN [s EXCEPT !.dialog = "Please select a node to delete."]
    ELSE LET node_id == s.node_list[s.current_item]
             gone == _find_node_by_id(node_id, s.scene_nodes)
             s1 == [s EXCEPT !.scene_nodes = _remove_node_by_id(node_id, @).nodes,
                             !.editing = IF gone = <<>> THEN @ ELSE AfterDel(s.scene_nodes, @, gone),
                             !.dialog = "Confirm Delete"]
         IN IF answer # "Yes" THEN [s EXCEPT !.dialog = "Confirm Delete"]
            ELSE _update_ui_from_scene([s1 EXCEPT !.editing = None])

\* a faulty variant of update_child_ids that loses the children of the copy
update_child_ids_dropping(s, children, new_parent_id) == [s |-> s, children |-> <<>>]

\* duplicate_selected_node.update_child_ids: the state and the renumbered children
RECURSIVE update_child_ids(_, _, _)
update_child_ids(s, children, new_parent_id) ==
    IF children = <<>> THEN [s |-> s, children |-> <<>>]
    ELSE LET s1 == _get_next_id(s)
             child == [Head(children) EXCEPT !.node_id = s1.next_node_id, !.parent_id = new_parent_id]
             sub == IF child.node_type = "LevelNodeGroup"
                    THEN update_child_ids(s1, child.children, child.node_id)
                    ELSE [s |-> s1, children |-> child.children]
             rest == update_child_ids(sub.s, Tail(children), new_parent_id)
         IN [s |-> rest.s, children |-> <<[child EXCEPT !.children = sub.children]>> \o rest.children]

\* a faulty variant of duplicate_selected_node that copies the node without its position
\* object: the offset of lines 771-772 moves the original as well
duplicate_sharing_position(s) ==
    IF s.editing.kind # "in" THEN [s EXCEPT !.dialog = "Please select a node to duplicate."]
    ELSE LET node == NodeAt(s.scene_nodes, s.editing.path)
             moved == [node EXCEPT !.position.x = @ + 10, !.position.y = @ + 10]
             s1 == _get_next_id(s)
             new_node == [moved EXCEPT !.node_id = s1.next_node_id, !.parent_id = 0]
         IN _update_ui_from_scene(
                [s1 EXCEPT !.scene_nodes = Append(ReplaceAt(@, s.editing.path, moved), new_node)])

duplicate_selected_node(s) ==
    IF s.editing.kind = "none" THEN [s EXCEPT !.dialog = "Please select a node to duplicate."]
    ELSE LET node == Deref(s.scene_nodes, s.editing)
             s1 == _get_next_id(s)
             copy == [node EXCEPT !.node_id = s1.next_node_id, !.parent_id = 0,
                                  !.position.x = @ + 10, !.position.y = @ + 10]
             sub == IF copy.node_type = "LevelNodeGroup"
                    THEN update_child_ids(s1, copy.children, copy.node_id)
                    ELSE [s |-> s1, children |-> copy.children]
             new_node == [copy EXCEPT !.children = sub.children]
         IN _update_ui_from_scene([sub.s EXCEPT !.scene_nodes = Append(@, new_node)])

_populate_default_scene(s) ==
    LET s1 == add_new_node(s, "LevelNodeStart", "sphere", Vector(0, 5, 0), Vector(10, 10, 10), "default")
        s2 == add_new_node(s1, "LevelNodeFinish", "sphere", Vector(0, 50, 0), Vector(10, 10, 10), "default")
    IN add_new_node(s2, "LevelNodeStatic", "cube", Vector(0, 0, -20), Vector(100, 5, 100), "default")

\* the answer is that of the "Confirm New Level" question
new_level(s, answer) ==
    IF answer # "Yes" THEN [s EXCEPT !.dialog = "Confirm New Level"]
    ELSE LET s1 == [s EXCEPT !.scene_data = DefaultSceneData,
                             !.scene_nodes = <<>>,
                             !.editing = Detach(s.scene_nodes, @),
                             !.level_file_path = "None",
                             !.fresh = TRUE]
             s2 == _populate_default_scene([s1 EXCEPT !.editing = None])
         IN [_update_ui_from_scene(s2) EXCEPT !.dialog = "New level created."]

\* str(e) of the exception that node_from_dict raises on the entry d
DecodeError(d) ==
    IF "Node" \notin DOMAIN d THEN "'Node'" ELSE "'list' object has no attribute 'get'"

\* the loop of open_level over data.get('levelNodes', []): the state when it ends or raises
RECURSIVE LoadNodes(_, _)
LoadNodes(s, node_dicts) ==
    IF node_dicts = <<>> THEN [ok |-> TRUE, s |-> s, why |-> ""]
    ELSE LET s1 == _get_next_id(s)
             new_node == node_from_dict(Head(node_dicts), s1.next_node_id)
         IN IF ~new_node.ok THEN [ok |-> FALSE, s |-> s1, why |-> DecodeError(Head(node_dicts))]
            ELSE LoadNodes([s1 EXCEPT !.scene_nodes = Append(@, new_node.val)], Tail(node_dicts))

\* file is what the file dialog and the file system give: [name, readable,
\* valid_json, data], with name "" when the dialog is cancelled
open_level(s, file) ==
    IF file.name = "" THEN s
    ELSE IF ~file.readable                                   \* open raised
    THEN [s EXCEPT !.dialog = "Failed to open level file: [Errno 13] Permission denied"]
    ELSE IF ~file.valid_json                                 \* json.load raised
    THEN [s EXCEPT !.dialog = "Failed to open level file: Expecting value"]
    ELSE LET s1 == [s EXCEPT !.scene_data = file.data,
                             !.scene_nodes = <<>>,
                             !.editing = Detach(s.scene_nodes, @),
                             !.level_file_path = file.name,
                             !.fresh = TRUE]
             loaded == LoadNodes([s1 EXCEPT !.editing = None], file.data.levelNodes)
         IN IF loaded.ok
            THEN [_update_ui_from_scene(loaded.s) EXCEPT !.dialog = "Successfully loaded " \o file.name]
            ELSE [loaded.s EXCEPT !.dialog = "Failed to open level file: " \o loaded.why]

(***************************************************************************)
(* The inputs of the schema 2 editor: level files, buttons, form edits.    *)
(***************************************************************************)
JVec(x, y, z) == JDict([x |-> x, y |-> y, z |-> z])

StaticEntry(id, pid) ==
    [id |-> id, parentId |-> pid,
     Node |-> [staticResponse |-> [shape |-> 1001, material |-> 4, position |-> JVec(10, 0, 0),
                                   color |-> JDict([r |-> 5, g |-> 0, b |-> 0, a |-> 10])]]]

StartEntry(id, pid) ==
    [id |-> id, parentId |-> pid,
     Node |-> [startResponse |-> [position |-> JVec(0, 5, 0), radius |-> 20]]]

FinishEntry(id, pid) ==
    [id |-> id, parentId |-> pid, Node |-> [finishResponse |-> [radius |-> 5]]]

CrumblingEntry(id, pid) ==
    [id |-> id, parentId |-> pid,
     Node |-> [crumblingResponse |-> [shape |-> 1000, stableTime |-> 20, scale |-> JVec(20, 10, 10)]]]

SignEntry(id, pid) ==
    [id |-> id, parentId |-> pid, Node |-> [signResponse |-> [text |-> "Hi"]]]

GroupEntry(id, pid, childNodes) ==
    [id |-> id, parentId |-> pid,
     Node |-> [groupResponse |-> [position |-> JVec(0, 0, 10), childNodes |-> childNodes]]]

\* an entry without its Node key
NoNodeEntry(id, pid) == [id |-> id, parentId |-> pid]

\* an entry whose position is a list, not a mapping
BadPositionEntry(id, pid) ==
    [id |-> id, parentId |-> pid, Node |-> [startResponse |-> [position |-> JList(<<>>)]]]

LevelFile(name, levelNodes) ==
    [name |-> name, readable |-> TRUE, valid_json |-> TRUE,
     data |-> [title |-> "Loaded", levelNodes |-> levelNodes]]

LevelFiles ==
    { LevelFile("group.json", <<GroupEntry(1, 0, <<StaticEntry(2, 1), StaticEntry(3, 1)>>)>>),
      LevelFile("nested.json", <<GroupEntry(1, 0, <<GroupEntry(2, 1, <<StartEntry(3, 2)>>)>>), SignEntry(4, 0)>>),
      LevelFile("small.json", <<FinishEntry(1, 0), GroupEntry(2, 0, <<CrumblingEntry(3, 2)>>)>>),
      LevelFile("nonode.json", <<StaticEntry(1, 0), NoNodeEntry(2, 0), FinishEntry(3, 0)>>),
      LevelFile("badpos.json", <<BadPositionEntry(1, 0), StaticEntry(2, 0)>>),
      [name |-> "locked.json", readable |-> FALSE, valid_json |-> TRUE, data |-> DefaultSceneData],
      [name |-> "broken.json", readable |-> TRUE, valid_json |-> FALSE, data |-> DefaultSceneData],
      [name |-> "", readable |-> FALSE, valid_json |-> FALSE, data |-> DefaultSceneData] }

\* the four "Add ..." buttons (lines 462-465)
AddButtons ==
    { <<"LevelNodeStatic", "cube">>, <<"LevelNodeStatic", "sphere">>,
      <<"LevelNodeStart", "sphere">>, <<"LevelNodeFinish", "sphere">> }

\* the values typed into the widgets wired to _update_node_prop
PropEdits ==
    { <<"shape", "cone">>, <<"material", "wood">>, <<"text", "Exit">>,
      <<"stable_time", 30>>, <<"respawn_time", 70>>, <<"radius", 15>> }

VectorEdits == { <<"position", "x", 40>>, <<"scale", "y", 30>> }

RotationEdits == { <<90, "y">> }

PickedColors ==
    { [valid |-> TRUE, r |-> 0, g |-> 10, b |-> 0, a |-> 10],
      [valid |-> FALSE, r |-> 0, g |-> 0, b |-> 0, a |-> 0] }

RECURSIVE CountNodes(_)
CountNodes(nodes) ==
    IF nodes = <<>> THEN 0
    ELSE 1 + CountNodes(Head(nodes).children) + CountNodes(Tail(nodes))

(***************************************************************************)
(* Schema 1: SceneNode.from_json and SceneNode.to_json                     *)
(* (src/GRAB_Level_Editor.py).  JSON scalars are tagged with their Python  *)
(* type, since int(), float() and str() depend on it.  A JSON object that  *)
(* from_json receives is [keys |-> its keys in order, m |-> the mapping].  *)
(***************************************************************************)
JInt(n) == [t |-> "int", n |-> n]

\* n is the value in tenths
JFloat(n) == [t |-> "float", n |-> n]

JStr(s) == [t |-> "str", s |-> s]

JNull == [t |-> "null"]

EmptyDict == [k \in {} |-> JNull]

\* d[k] = v
Put(d, k, v) == [y \in DOMAIN d \cup {k} |-> IF y = k THEN v ELSE d[y]]

\* Python's truth value of a JSON value, as in `x or {}`
Falsy(j) ==
    CASE j.t = "null" -> TRUE
      [] j.t \in {"int", "float"} -> j.n = 0
      [] j.t = "str" -> j.s = ""
      [] j.t = "dict" -> DOMAIN j.v = {}
      [] j.t = "list" -> j.v = <<>>

\* the numerals that appear as strings in the inputs; any other string is not a number
IntLiterals == ("7" :> 7) @@ ("1002" :> 1002)

FloatLiterals == ("7" :> 70) @@ ("1002" :> 10020) @@ ("2.5" :> 25)

\* int(x): truncates a float, parses a string, raises on anything else
PyInt(j) ==
    CASE j.t = "int" -> Returned(j.n)
      [] j.t = "float" -> Returned(IF j.n >= 0 THEN j.n \div 10 ELSE -((-j.n) \div 10))
      [] j.t = "str" -> IF j.s \in DOMAIN IntLiterals THEN Returned(IntLiterals[j.s]) ELSE Raised
      [] OTHER -> Raised

\* float(x), in tenths
PyFloat(j) ==
    CASE j.t = "int" -> Returned(j.n * 10)
      [] j.t = "float" -> Returned(j.n)
      [] j.t = "str" -> IF j.s \in DOMAIN FloatLiterals THEN Returned(FloatLiterals[j.s]) ELSE Raised
      [] OTHER -> Raised

\* str(x); the repr of a mapping or a list is abbreviated
PyStr(j) ==
    CASE j.t = "str" -> j.s
      [] j.t = "int" -> ToString(j.n)
      [] j.t = "float" -> IF j.n >= 0
                          THEN ToString(j.n \div 10) \o "." \o ToString(j.n % 10)
                          ELSE "-" \o ToString((-j.n) \div 10) \o "." \o ToString((-j.n) % 10)
      [] j.t = "null" -> "None"
      [] j.t = "dict" -> "{...}"
      [] j.t = "list" -> "[...]"

S1_MATERIALS ==
    ("default" :> 0) @@ ("grab" :> 1) @@ ("ice" :> 2) @@ ("lava" :> 3) @@ ("wood" :> 4) @@
    ("grapple" :> 5) @@ ("lava grapple" :> 6) @@ ("breakable" :> 7) @@ ("colored" :> 8) @@
    ("bounce" :> 9) @@ ("snow" :> 10)

NODE_TYPES ==
    { "levelNodeStatic", "levelNodeSign", "levelNodeStart", "levelNodeFinish",
      "levelNodeGravity", "levelNodeParticleEmitter", "levelNodeTrigger", "levelNodeSound" }

JColor(r, g, b, a) == JDict([r |-> JFloat(r), g |-> JFloat(g), b |-> JFloat(b), a |-> JFloat(a)])

\* SceneNode(): the schema 1 dataclass with its defaults
S1_SceneNode ==
    [id |-> "node", type |-> "levelNodeStatic",
     x |-> 0, y |-> 0, z |-> 0, rx |-> 0, ry |-> 0, rz |-> 0, sx |-> 10, sy |-> 10, sz |-> 10,
     shape |-> SHAPES["cube"], material |-> S1_MATERIALS["default"],
     color1 |-> JColor(10, 10, 10, 10), color |-> JColor(0, 0, 0, 10),
     radius |-> 10, text |-> "", mode |-> 0, raw_data |-> EmptyDict]

\* the keys that from_json pops from raw_data
PoppedKeys ==
    {"position", "scale", "rotation", "shape", "material", "color1", "radius", "text", "mode"}

\* a faulty variant of the pops that keeps none of the unknown keys
PopEveryKey(nested) == EmptyDict

\* raw_data after the pops
PopKeys(nested) == [k \in DOMAIN nested \ PoppedKeys |-> nested[k]]

\* a faulty variant of FloatOf that takes 0.0 for every absent key
FloatOfZeroDefault(d, k, default) ==
    IF ~IsMapping(d) THEN Raised ELSE PyFloat(Get(d.v, k, JFloat(0)))

\* float(d.get(k, default)) inside the try block: d.get raises when d is not a mapping
FloatOf(d, k, default) ==
    IF ~IsMapping(d) THEN Raised ELSE PyFloat(Get(d.v, k, JFloat(default)))

from_json(o) ==
    IF o.keys = <<>> THEN Raised                           \* next(iter({})): StopIteration
    ELSE
    LET node_type == o.keys[1]
        nested0 == o.m[node_type]
        nested == IF Falsy(nested0) THEN JDict(EmptyDict) ELSE nested0
    IN
    IF ~IsMapping(nested) THEN Raised                      \* nested.get: AttributeError
    ELSE
    LET n == nested.v
        pos0 == Get(n, "position", JDict(EmptyDict))
        pos == IF Falsy(pos0) THEN JDict(EmptyDict) ELSE pos0
        scl0 == Get(n, "scale", JDict(EmptyDict))
        scl == IF Falsy(scl0) THEN JDict(EmptyDict) ELSE scl0
        shape == PyInt(Get(n, "shape", JInt(SHAPES["cube"])))
        material == PyInt(Get(n, "material", JInt(S1_MATERIALS["default"])))
        radius == PyFloat(Get(n, "radius", JFloat(10)))
        text == PyStr(Get(n, "text", JStr("")))
        mode == PyInt(Get(n, "mode", JInt(0)))
        color1 == Get(n, "color1", JColor(10, 10, 10, 10))
        color == Get(o.m, "color", JColor(0, 0, 0, 10))
        x == FloatOf(pos, "x", 0)
        y == FloatOf(pos, "y", 0)
        z == FloatOf(pos, "z", 0)
        sx == FloatOf(scl, "x", 10)
        sy == FloatOf(scl, "y", 10)
        sz == FloatOf(scl, "z", 10)
    IN
    \* lines 148-152 are outside the try block: what they raise leaves from_json
    IF ~shape.ok \/ ~material.ok \/ ~radius.ok \/ ~mode.ok THEN Raised
    \* the except branch of lines 188-190
    ELSE IF ~x.ok \/ ~y.ok \/ ~z.ok \/ ~sx.ok \/ ~sy.ok \/ ~sz.ok THEN Returned(S1_SceneNode)
    ELSE Returned(
        [id |-> PyStr(Get(n, "id", JStr("node_" \o node_type))), type |-> node_type,
         x |-> x.val, y |-> y.val, z |-> z.val, rx |-> 0, ry |-> 0, rz |-> 0,
         sx |-> sx.val, sy |-> sy.val, sz |-> sz.val,
         shape |-> shape.val, material |-> material.val,
         color1 |-> IF IsMapping(color1) THEN color1 ELSE JColor(10, 10, 10, 10),
         color |-> IF IsMapping(color) THEN color ELSE JColor(0, 0, 0, 10),
         radius |-> radius.val, text |-> text, mode |-> mode.val,
         raw_data |-> PopKeys(n)])

\* the value of nested["scale"] that to_json writes
ScaleOf(node) == JDict([x |-> JFloat(node.sx), y |-> JFloat(node.sy), z |-> JFloat(node.sz)])

\* lines 123-125 of to_json
ReapplyScale(nested, node) ==
    IF "scale" \in DOMAIN nested THEN Put(nested, "scale", ScaleOf(node)) ELSE nested

\* a faulty variant of to_json that writes the node's rx, ry, rz into the rotation
to_json_with_angles(node) ==
    [keys |-> <<node.type>>,
     m |-> (node.type :>
              JDict(Put(Put(node.raw_data,
                            "position", JDict([x |-> JFloat(node.x), y |-> JFloat(node.y), z |-> JFloat(node.z)])),
                        "rotation", JDict([w |-> JFloat(10), x |-> JFloat(node.rx),
                                           y |-> JFloat(node.ry), z |-> JFloat(node.rz)]))))]

to_json(node) ==
    LET n1 == Put(Put(node.raw_data,
                      "position", JDict([x |-> JFloat(node.x), y |-> JFloat(node.y), z |-> JFloat(node.z)])),
                  "rotation", JDict([w |-> JFloat(10), x |-> JFloat(0), y |-> JFloat(0), z |-> JFloat(0)]))
        n2 == CASE node.type = "levelNodeStatic" ->
                     Put(Put(Put(Put(n1, "shape", JInt(node.shape)), "material", JInt(node.material)),
                             "scale", ScaleOf(node)), "color1", node.color1)
                [] node.type \in {"levelNodeStart", "levelNodeFinish"} -> Put(n1, "radius", JFloat(node.radius))
                [] node.type = "levelNodeSign" -> Put(n1, "text", JStr(node.text))
                [] OTHER -> n1
        nested == ReapplyScale(n2, node)
        d == (node.type :> JDict(nested))
    IN IF ~Falsy(node.color)
       THEN [keys |-> IF node.type = "color" THEN <<"color">> ELSE <<node.type, "color">>,
             m |-> Put(d, "color", node.color)]
       ELSE [keys |-> <<node.type>>, m |-> d]

(***************************************************************************)
(* The inputs of from_json: node objects {T: nested} and {T: nested,       *)
(* "color": c} whose nested mapping has at most MaxKeys keys.              *)
(***************************************************************************)
KeyValues ==
    [position |-> { JDict([x |-> JInt(2), y |-> JFloat(35)]), JDict([x |-> JStr("abc")]),
                    JList(<<JInt(1)>>), JNull },
     scale    |-> { JDict([x |-> JInt(2), y |-> JInt(3), z |-> JFloat(5)]), JStr("big") },
     rotation |-> { JDict([w |-> JFloat(7), x |-> JFloat(7), y |-> JFloat(0), z |-> JFloat(0)]) },
     shape    |-> { JInt(1001), JStr("1002"), JStr("abc"), JFloat(10057) },
     material |-> { JInt(3), JNull },
     radius   |-> { JFloat(25), JStr("2.5"), JStr("wide") },
     text     |-> { JStr("Hi"), JInt(7) },
     mode     |-> { JInt(2), JStr("up") },
     color1   |-> { JColor(5, 0, 0, 10), JStr("red") },
     id       |-> { JStr("n1"), JInt(7) },
     foo      |-> { JInt(1), JDict([bar |-> JStr("x")]) }]

\* the mappings over `keys` that hold at most `budget` keys
RECURSIVE Dicts(_, _)
Dicts(keys, budget) ==
    IF keys = {} \/ budget = 0 THEN {EmptyDict}
    ELSE LET k == CHOOSE k \in keys : TRUE IN
         Dicts(keys \ {k}, budget)
         \cup { Put(d, k, v) : d \in Dicts(keys \ {k}, budget - 1), v \in KeyValues[k] }

NodeTypeKeys ==
    {"levelNodeStatic", "levelNodeStart", "levelNodeSign", "levelNodeGravity", "levelNodeCustom"}

NestedValues == { JDict(d) : d \in Dicts(DOMAIN KeyValues, MaxKeys) } \cup { JNull, JList(<<JInt(1)>>) }

TopColors == { JColor(0, 5, 0, 10), JList(<<>>) }

NodeObjects ==
    { [keys |-> <<T>>, m |-> (T :> nested)] : T \in NodeTypeKeys, nested \in NestedValues }
    \cup { [keys |-> <<T, "color">>, m |-> Put((T :> nested), "color", c)] :
             T \in NodeTypeKeys, nested \in NestedValues, c \in TopColors }

(***************************************************************************)
(* Schema 1: MainWindow's methods (src/GRAB_Level_Editor.py).  A method    *)
(* takes the window's state s (a record of the fields below) and yields    *)
(* the state it leaves behind.  An item of node_list is [text, data], data *)
(* being the reference to the item's node.  Of the metadata widgets the    *)
(* model keeps title_edit, desc_edit, max_checkpoints and sun_altitude;    *)
(* creators_edit and tags_edit are written like title_edit, the other      *)
(* ambience spin boxes like sun_altitude.                                  *)
(***************************************************************************)
MW ==
    [nodes |-> self_nodes, scene_data |-> scene_data, current_path |-> current_path,
     editing |-> _editing_node, node_list |-> node_list, current_item |-> current_item,
     form |-> form, dialog |-> "none"]

DEFAULT_JSON ==
    JDict([formatVersion |-> JInt(12), title |-> JStr("New Level"),
           description |-> JStr(".index modding - grab-tools.live"),
           maxCheckpointCount |-> JInt(10),
           ambienceSettings |-> JDict([sunAltitude |-> JInt(45)]),
           levelNodes |-> JList(<<>>)])

\* QSpinBox / QDoubleSpinBox.setValue keeps the value inside the widget's range
Clamp(v, lo, hi) == IF v < lo THEN lo ELSE IF v > hi THEN hi ELSE v

\* [n.to_json() for n in self.nodes]
RECURSIVE ToJsonAll(_)
ToJsonAll(ns) == IF ns = <<>> THEN <<>> ELSE <<to_json(Head(ns))>> \o ToJsonAll(Tail(ns))

\* _update_ambience_from_ui; ok is FALSE when amb[...] = ... raises
_update_ambience_from_ui(s) ==
    LET amb == Get(s.scene_data.v, "ambienceSettings", JDict(EmptyDict)) IN
    IF ~IsMapping(amb) THEN [ok |-> FALSE, s |-> s]
    ELSE [ok |-> TRUE,
          s |-> [s EXCEPT !.scene_data =
                    JDict(Put(s.scene_data.v, "ambienceSettings",
                              JDict(Put(amb.v, "sunAltitude", JFloat(s.form.sun_altitude)))))]]

\* _commit_ui_to_data; ok is FALSE when it raises, s is the state it leaves then
_commit_ui_to_data(s) ==
    IF ~IsMapping(s.scene_data) THEN [ok |-> FALSE, s |-> s]     \* self.scene_data['title'] = ...: TypeError
    ELSE LET d1 == Put(Put(Put(s.scene_data.v, "title", JStr(s.form.title_edit)),
                           "description", JStr(s.form.desc_edit)),
                       "maxCheckpointCount", JInt(s.form.max_checkpoints))
             a == _update_ambience_from_ui([s EXCEPT !.scene_data = JDict(d1)])
         IN IF ~a.ok THEN a
            ELSE [ok |-> TRUE,
                  s |-> [a.s EXCEPT !.scene_data =
                            JDict(Put(a.s.scene_data.v, "levelNodes", JList(ToJsonAll(a.s.nodes))))]]

\* f"{node.id} ({node.type})"
ItemText(node) == node.id \o " (" \o node.type \o ")"

_display_node(s, ref) ==
    LET node == Deref(s.nodes, ref) IN
    [s EXCEPT !.editing = ref,
              !.form = [@ EXCEPT !.node_id = node.id, !.node_type = node.type,
                                 !.node_shape = ReverseGet(SHAPES, node.shape, "cube"),
                                 !.node_material = ReverseGet(S1_MATERIALS, node.material, "default"),
                                 !.pos_x = Clamp(node.x, -999990, 999990),
                                 !.pos_y = Clamp(node.y, -999990, 999990),
                                 !.pos_z = Clamp(node.z, -999990, 999990),
                                 !.rot_x = Clamp(node.rx, -3600, 3600),
                                 !.rot_y = Clamp(node.ry, -3600, 3600),
                                 !.rot_z = Clamp(node.rz, -3600, 3600),
                                 !.scale_x = Clamp(node.sx, 0, 9990),
                                 !.scale_y = Clamp(node.sy, 0, 9990),
                                 !.scale_z = Clamp(node.sz, 0, 9990),
                                 !.node_radius = Clamp(node.radius, 0, 9990),
                                 !.node_text = node.text,
                                 !.node_mode = Clamp(node.mode, 0, 100)]]

\* MainWindow.on_node_selected(current, previous); current is the row that became current, 0 for None
S1_on_node_selected(s, current) ==
    IF current = 0 THEN [s EXCEPT !.editing = None]
    ELSE _display_node(s, s.node_list[current].data)

\* node_list.setCurrentItem / setCurrentRow: currentItemChanged fires when the current item changes
SetCurrent(s, row) ==
    IF s.current_item = row THEN s
    ELSE S1_on_node_selected([s EXCEPT !.current_item = row], row)

\* write `node` over the object that s.editing refers to
S1_StoreEdited(s, node) ==
    IF s.editing.kind = "in"
    THEN [s EXCEPT !.nodes = ReplaceAt(@, s.editing.path, node)]
    ELSE [s EXCEPT !.editing = Out(node)]

\* the row of the first item whose data is the reference, 0 if there is none
ItemOf(list, ref) ==
    IF \E i \in 1..Len(list) : list[i].data = ref
    THEN CHOOSE i \in 1..Len(list) : list[i].data = ref /\ \A j \in 1..(i - 1) : list[j].data # ref
    ELSE 0

on_apply_node(s) ==
    IF s.editing.kind = "none" THEN s
    ELSE LET old == Deref(s.nodes, s.editing)
             f == s.form
             n1 == [old EXCEPT !.id = f.node_id,
                               !.x = f.pos_x, !.y = f.pos_y, !.z = f.pos_z,
                               !.rx = f.rot_x, !.ry = f.rot_y, !.rz = f.rot_z,
                               !.sx = f.scale_x, !.sy = f.scale_y, !.sz = f.scale_z]
             n2 == IF old.type = "levelNodeStatic"
                   THEN [n1 EXCEPT !.shape = Get(SHAPES, f.node_shape, SHAPES["cube"]),
                                   !.material = Get(S1_MATERIALS, f.node_material, S1_MATERIALS["default"])]
                   ELSE n1
             n3 == IF old.type \in {"levelNodeStart", "levelNodeFinish"}
                   THEN [n2 EXCEPT !.radius = f.node_radius] ELSE n2
             n4 == IF old.type = "levelNodeSign" THEN [n3 EXCEPT !.text = f.node_text] ELSE n3
             node == IF old.type = "levelNodeGravity" THEN [n4 EXCEPT !.mode = f.node_mode] ELSE n4
             row == ItemOf(s.node_list, s.editing)
             s1 == S1_StoreEdited(s, node)
         IN IF row = 0 THEN s1
            ELSE [s1 EXCEPT !.node_list[row].text = ItemText(node)]

\* on_pick_node_color(color_field); c is the QColor of the dialog, invalid when it is cancelled
S1_on_pick_node_color(s, color_field, c) ==
    IF s.editing.kind = "none" THEN s
    ELSE IF ~c.valid THEN s
    ELSE S1_StoreEdited(s, [Deref(s.nodes, s.editing) EXCEPT ![color_field] = JColor(c.r, c.g, c.b, c.a)])

\* the item that on_add_level_node and on_duplicate_node append for the node they appended
AddItemFor(s, node) ==
    LET s1 == [s EXCEPT !.nodes = Append(@, node),
                        !.node_list = Append(@, [text |-> ItemText(node), data |-> In(<<Len(s.nodes) + 1>>)])]
    IN SetCurrent(s1, Len(s1.node_list))

\* selected_type is add_node_combo.currentText()
on_add_level_node(s, selected_type) ==
    AddItemFor(s, [S1_SceneNode EXCEPT !.id = selected_type \o "_" \o ToString(Len(s.nodes)),
                                       !.type = selected_type])

on_duplicate_node(s, selected_type) ==
    IF s.current_item = 0 THEN on_add_level_node(s, selected_type)
    ELSE LET original_node == Deref(s.nodes, s.node_list[s.current_item].data)
         IN AddItemFor(s, [original_node EXCEPT !.id = original_node.type \o "_" \o ToString(Len(s.nodes)),
                                                !.x = @ + 10, !.y = @ + 10])

\* a faulty variant of takeItem that leaves the item in the list
takeItemNot(s, idx, neighbour) == s

\* node_list.takeItem(idx) of the current item: Qt makes a neighbouring item current (the
\* one after it or the one before it, None when the list empties), which fires
\* currentItemChanged while the taken item is still in the list
takeItem(s, idx, neighbour) ==
    LET n == Len(s.node_list)
        after == IF idx < n THEN idx + 1 ELSE idx - 1
        before == IF idx > 1 THEN idx - 1 ELSE IF idx < n THEN idx + 1 ELSE 0
        row == IF neighbour = "after" THEN after ELSE before
        s1 == IF s.current_item = idx
              THEN S1_on_node_selected([s EXCEPT !.current_item = row], row)
              ELSE s
    IN [s1 EXCEPT !.node_list = DelAt(@, idx),
                  !.current_item = IF @ > idx THEN @ - 1 ELSE @]

on_remove_node(s, neighbour) ==
    IF s.current_item = 0 THEN s
    ELSE LET idx == s.current_item IN
         IF idx > Len(s.nodes) THEN s
         ELSE LET e1 == IF s.editing = In(<<idx>>) THEN None ELSE s.editing
                  s1 == [s EXCEPT !.nodes = DelAt(@, idx),
                                  !.editing = AfterDel(s.nodes, e1, <<idx>>),
                                  !.node_list = [i \in DOMAIN @ |->
                                                    [@[i] EXCEPT !.data = AfterDel(s.nodes, @, <<idx>>)]]]
              IN takeItem(s1, idx, neighbour)

\* max_checkpoints.setValue: valueChanged is connected to _commit_ui_to_data
SetMaxCheckpoints(s, value) ==
    IF s.form.max_checkpoints = value THEN s
    ELSE _commit_ui_to_data([s EXCEPT !.form.max_checkpoints = value]).s

\* sun_altitude.setValue: valueChanged is connected to _update_ambience_from_ui
SetSunAltitude(s, value) ==
    IF s.form.sun_altitude = value THEN s
    ELSE _update_ambience_from_ui([s EXCEPT !.form.sun_altitude = value]).s

\* the loop of load_scene_from_data over data.get('levelNodes', [])
RECURSIVE LoadObjects(_, _)
LoadObjects(s, objs) ==
    IF objs = <<>> THEN [ok |-> TRUE, s |-> s, why |-> ""]
    ELSE LET n == from_json(Head(objs)) IN
         IF ~n.ok THEN [ok |-> FALSE, s |-> s, why |-> "invalid literal for int() with base 10"]
         ELSE LoadObjects([s EXCEPT !.nodes = Append(@, n.val),
                                    !.node_list = Append(@, [text |-> ItemText(n.val),
                                                             data |-> In(<<Len(s.nodes) + 1>>)])],
                          Tail(objs))

\* lines 1047-1051 of load_scene_from_data.  desc_edit.setPlainText emits textChanged, which
\* is connected to _commit_ui_to_data: the slot runs inside the load, on the data that is
\* being loaded; what a slot raises stays in the slot.
LoadTexts(s, data) ==
    _commit_ui_to_data([s EXCEPT !.scene_data = data,
                                 !.form.title_edit = PyStr(Get(data.v, "title", JStr(""))),
                                 !.form.desc_edit = PyStr(Get(data.v, "description", JStr("")))]).s

\* lines 1055-1058
LoadMaxCheckpoints(s) ==
    LET mc == PyInt(Get(s.scene_data.v, "maxCheckpointCount", JInt(0)))
    IN SetMaxCheckpoints(s, IF mc.ok THEN Clamp(mc.val, 0, 1000) ELSE 0)

\* lines 1060-1064; ok is FALSE when they raise
LoadAmbience(s) ==
    LET amb == Get(s.scene_data.v, "ambienceSettings", JDict(EmptyDict))
        alt == PyFloat(Get(amb.v, "sunAltitude", JInt(45)))
    IN IF ~IsMapping(amb) THEN [ok |-> FALSE, s |-> s, why |-> "'str' object has no attribute 'get'"]
       ELSE IF ~alt.ok THEN [ok |-> FALSE, s |-> s, why |-> "could not convert string to float"]
       ELSE [ok |-> TRUE, s |-> SetSunAltitude(s, Clamp(alt.val, -900, 900)), why |-> ""]

\* self.nodes = []: the references into the old list now hold the objects themselves
DropNodes(s) ==
    [s EXCEPT !.nodes = <<>>,
              !.editing = Detach(s.nodes, @),
              !.node_list = [i \in DOMAIN @ |-> [@[i] EXCEPT !.data = Detach(s.nodes, @)]]]

\* self.node_list.clear(): currentItemChanged fires when there was a current item
ClearList(s) ==
    [(IF s.current_item = 0 THEN s ELSE S1_on_node_selected(s, 0))
        EXCEPT !.node_list = <<>>, !.current_item = 0]

\* lines 1078-1081
SelectFirst(s) ==
    IF Len(s.node_list) > 0 THEN SetCurrent([s EXCEPT !.editing = None], 1)
    ELSE [s EXCEPT !.editing = None]

\* lines 1066-1081
LoadNodeList(s) ==
    LET loaded == LoadObjects(ClearList(DropNodes(s)), Get(s.scene_data.v, "levelNodes", JList(<<>>)).v)
    IN IF ~loaded.ok THEN loaded
       ELSE [ok |-> TRUE, s |-> SelectFirst(loaded.s), why |-> ""]

\* load_scene_from_data(data): ok is FALSE when it raises, s is the state it leaves then
load_scene_from_data(s, data) ==
    IF ~IsMapping(data)                                     \* data.get: AttributeError
    THEN [ok |-> FALSE, s |-> [s EXCEPT !.scene_data = data],
          why |-> "'list' object has no attribute 'get'"]
    ELSE LET a == LoadAmbience(LoadMaxCheckpoints(LoadTexts(s, data)))
         IN IF ~a.ok THEN a ELSE LoadNodeList(a.s)

\* the answer is that of the 'New Level' question
on_new(s, answer) ==
    IF answer # "Yes" THEN [s EXCEPT !.dialog = "New Level"]
    ELSE [load_scene_from_data([s EXCEPT !.current_path = "None"], DEFAULT_JSON).s
             EXCEPT !.dialog = "New Level"]

\* file is what the file dialog and the file system give, as for open_level
on_open(s, file) ==
    IF file.name = "" THEN s
    ELSE IF ~file.readable
    THEN [s EXCEPT !.dialog = "Failed to open file:\n[Errno 13] Permission denied"]
    ELSE IF ~file.valid_json
    THEN [s EXCEPT !.dialog = "Failed to open file:\nExpecting value"]
    ELSE LET loaded == load_scene_from_data([s EXCEPT !.current_path = file.name], file.data)
         IN IF loaded.ok THEN loaded.s
            ELSE [loaded.s EXCEPT !.dialog = "Failed to open file:\n" \o loaded.why]

(***************************************************************************)
(* The inputs of the schema 1 editor.                                      *)
(***************************************************************************)
NodeObject(T, nested) == [keys |-> <<T>>, m |-> (T :> JDict(nested))]

S1_LevelFile(name, data) == [name |-> name, readable |-> TRUE, valid_json |-> TRUE, data |-> data]

S1_LevelData(ambienceSettings, levelNodes) ==
    JDict([formatVersion |-> JInt(12), title |-> JStr("Loaded"), description |-> JStr("a level"),
           maxCheckpointCount |-> JInt(5), ambienceSettings |-> ambienceSettings,
           levelNodes |-> JList(levelNodes)])

S1_LevelFiles ==
    { S1_LevelFile("scene.json",
          S1_LevelData(JDict([sunAltitude |-> JInt(30)]),
                       << NodeObject("levelNodeStatic", [shape |-> JInt(1001), foo |-> JInt(1)]),
                          NodeObject("levelNodeGravity", [mode |-> JInt(2), position |-> JDict([x |-> JInt(2)])]) >>)),
      S1_LevelFile("badnode.json",
          S1_LevelData(JDict([sunAltitude |-> JInt(30)]),
                       << NodeObject("levelNodeStatic", [shape |-> JStr("abc")]) >>)),
      S1_LevelFile("badamb.json",
          S1_LevelData(JStr("dark"), << NodeObject("levelNodeSign", [text |-> JStr("Hi")]) >>)),
      S1_LevelFile("list.json", JList(<<>>)),
      [name |-> "locked.json", readable |-> FALSE, valid_json |-> TRUE, data |-> JNull],
      [name |-> "broken.json", readable |-> TRUE, valid_json |-> FALSE, data |-> JNull],
      [name |-> "", readable |-> FALSE, valid_json |-> FALSE, data |-> JNull] }

\* the entries of add_node_combo that the user picks
AddNodeTypes == {"levelNodeStatic", "levelNodeStart", "levelNodeGravity"}

\* the values the user types into the property widgets
S1_PropEdits ==
    { <<"node_id", "renamed">>, <<"pos_x", 40>>, <<"rot_y", 900>>, <<"node_shape", "sphere">>,
      <<"node_radius", 25>>, <<"node_mode", 2>> }

S1_ColorFields == {"color1", "color"}

\* whether _set_property_fields_enabled and _display_node left the widget enabled
WidgetEnabled(s, widget) ==
    /\ s.editing.kind # "none"
    /\ LET type == Deref(s.nodes, s.editing).type IN
       CASE widget \in {"node_shape", "node_material", "color1"} -> type = "levelNodeStatic"
         [] widget = "node_radius" -> type \in {"levelNodeStart", "levelNodeFinish"}
         [] widget = "node_text" -> type = "levelNodeSign"
         [] widget = "node_mode" -> type = "levelNodeGravity"
         [] OTHER -> TRUE

(***************************************************************************)
(* The three programs share the module's variables; the variables of a     *)
(* program that is not the one running keep these values.                  *)
(***************************************************************************)
Pending == [ok |-> FALSE, pending |-> TRUE]

IdleLevelEditor ==
    /\ scene_nodes = <<>>
    /\ level_file_path = "None"
    /\ next_node_id = 0
    /\ camera_pos = Vector(0, 0, 0)
    /\ issued = [before |-> 0, now |-> <<>>]

IdleMainWindow ==
    /\ self_nodes = <<>>
    /\ current_path = "None"

IdleCodec ==
    /\ obj = [keys |-> <<>>, m |-> EmptyDict]
    /\ parsed = Pending
    /\ emitted = Pending

IdleEditors ==
    /\ scene_data = EmptyDict
    /\ _editing_node = None
    /\ node_list = <<>>
    /\ current_item = 0
    /\ form = EmptyDict
    /\ dialog = "none"
    /\ ops = 0

(***************************************************************************)
(* The schema 2 editor as a state machine.                                 *)
(***************************************************************************)
\* the state a handler leaves behind becomes the editor's state; the editor
\* handles MaxOps events
Commit(s) ==
    /\ ops < MaxOps
    /\ scene_nodes' = s.scene_nodes
    /\ scene_data' = s.scene_data
    /\ level_file_path' = s.level_file_path
    /\ _editing_node' = s.editing
    /\ next_node_id' = s.next_node_id
    /\ node_list' = s.node_list
    /\ current_item' = s.current_item
    /\ form' = s.form
    /\ dialog' = s.dialog
    /\ issued' = [before |-> IF s.fresh THEN 0 ELSE Max(issued.before, SeqMax(issued.now)),
                  now |-> s.returned]
    /\ ops' = ops + 1
    /\ UNCHANGED <<app, camera_pos, mw_vars, codec_vars>>

\* LevelEditor.__init__: the fields, the widgets' initial values, the default scene
Constructed ==
    _update_ui_from_scene(_populate_default_scene(
        [scene_nodes |-> <<>>, scene_data |-> DefaultSceneData, level_file_path |-> "None",
         editing |-> None, next_node_id |-> 1, node_list |-> <<>>, current_item |-> 0,
         form |-> [title_input |-> "", shape |-> "cube", material |-> "default", radius |-> 0,
                   text |-> "", stable_time |-> 1, respawn_time |-> 1],
         dialog |-> "none", returned |-> <<>>, fresh |-> TRUE]))

InitLevelEditor ==
    /\ app = "LevelEditor"
    /\ scene_nodes = Constructed.scene_nodes
    /\ scene_data = Constructed.scene_data
    /\ level_file_path = Constructed.level_file_path
    /\ _editing_node = Constructed.editing
    /\ next_node_id = Constructed.next_node_id
    /\ node_list = Constructed.node_list
    /\ current_item = Constructed.current_item
    /\ form = Constructed.form
    /\ dialog = "none"
    /\ issued = [before |-> 0, now |-> Constructed.returned]
    /\ camera_pos = Vector(0, 30, 100)
    /\ ops = 0
    /\ IdleMainWindow
    /\ IdleCodec

\* node_list.itemClicked: the clicked item becomes current, then on_node_selected(item)
NodeListItemClicked ==
    /\ app = "LevelEditor"
    /\ \E row \in 1..Len(node_list) :
           Commit(on_node_selected([LE EXCEPT !.current_item = row], row))

AddNewNode ==
    /\ app = "LevelEditor"
    /\ \E b \in AddButtons :
           Commit(add_new_node(LE, b[1], b[2],
                               Vector(camera_pos.x, camera_pos.y, camera_pos.z - 50),
                               Vector(10, 10, 10), "default"))

DeleteSelectedNode ==
    /\ app = "LevelEditor"
    /\ \E answer \in {"Yes", "No"} : Commit(delete_selected_node(LE, answer))

DuplicateSelectedNode ==
    /\ app = "LevelEditor"
    /\ Commit(duplicate_selected_node(LE))

NewLevel ==
    /\ app = "LevelEditor"
    /\ \E answer \in {"Yes", "No"} : Commit(new_level(LE, answer))

OpenLevel ==
    /\ app = "LevelEditor"
    /\ \E file \in LevelFiles : Commit(open_level(LE, file))

\* the user changes a widget of the form: its changed-signal calls _update_node_prop
UpdateNodeProp ==
    /\ app = "LevelEditor"
    /\ \E e \in PropEdits :
           /\ form[e[1]] # e[2]
           /\ Commit(_update_node_prop([LE EXCEPT !.form[e[1]] = e[2]], e[1], e[2]))

UpdateNodeVector ==
    /\ app = "LevelEditor"
    /\ \E e \in VectorEdits : Commit(_update_node_vector(LE, e[1], e[2], e[3]))

UpdateNodeRotation ==
    /\ app = "LevelEditor"
    /\ \E e \in RotationEdits : Commit(_update_node_rotation(LE, e[1], e[2]))

OnPickNodeColor ==
    /\ app = "LevelEditor"
    /\ \E c \in PickedColors : Commit(on_pick_node_color(LE, c))

NextLevelEditor ==
    \/ NodeListItemClicked
    \/ AddNewNode
    \/ DeleteSelectedNode
    \/ DuplicateSelectedNode
    \/ NewLevel
    \/ OpenLevel
    \/ UpdateNodeProp
    \/ UpdateNodeVector
    \/ UpdateNodeRotation
    \/ OnPickNodeColor

SpecLevelEditor == InitLevelEditor /\ [][NextLevelEditor]_vars

(***************************************************************************)
(* The codec as a state machine: an object is parsed, and the node that    *)
(* from_json returned is serialized again.                                 *)
(***************************************************************************)
InitCodec ==
    /\ app = "codec"
    /\ obj \in NodeObjects
    /\ parsed = Pending
    /\ emitted = Pending
    /\ IdleLevelEditor
    /\ IdleMainWindow
    /\ IdleEditors

FromJson ==
    /\ app = "codec"
    /\ parsed = Pending
    /\ parsed' = from_json(obj)
    /\ UNCHANGED <<app, ops, le_vars, mw_vars, obj, emitted>>

ToJson ==
    /\ app = "codec"
    /\ parsed.ok
    /\ emitted = Pending
    /\ emitted' = to_json(parsed.val)
    /\ UNCHANGED <<app, ops, le_vars, mw_vars, obj, parsed>>

\* the angles that on_apply_node takes from rot_x, rot_y, rot_z
Rotations == { <<900, 0, -450>>, <<0, 1800, 0>> }

\* the parsed node is edited before it is serialized: lines 1002-1004 of on_apply_node
\* assign its rx, ry, rz
ApplyRotation ==
    /\ app = "codec"
    /\ parsed.ok
    /\ emitted = Pending
    /\ parsed = from_json(obj)
    /\ \E r \in Rotations :
           parsed' = Returned([parsed.val EXCEPT !.rx = r[1], !.ry = r[2], !.rz = r[3]])
    /\ UNCHANGED <<app, ops, le_vars, mw_vars, obj, emitted>>

NextCodec == FromJson \/ ApplyRotation \/ ToJson

SpecCodec == InitCodec /\ [][NextCodec]_vars

(***************************************************************************)
(* The schema 1 editor as a state machine.                                 *)
(***************************************************************************)
S1_Commit(s) ==
    /\ ops < MaxOps
    /\ self_nodes' = s.nodes
    /\ scene_data' = s.scene_data
    /\ current_path' = s.current_path
    /\ _editing_node' = s.editing
    /\ node_list' = s.node_list
    /\ current_item' = s.current_item
    /\ form' = s.form
    /\ dialog' = s.dialog
    /\ ops' = ops + 1
    /\ UNCHANGED <<app, scene_nodes, level_file_path, next_node_id, camera_pos, issued, codec_vars>>

\* MainWindow.__init__: the fields, the widgets' initial values, load_scene_from_data(self.scene_data)
S1_Constructed ==
    load_scene_from_data(
        [nodes |-> <<>>, scene_data |-> DEFAULT_JSON, current_path |-> "None", editing |-> None,
         node_list |-> <<>>, current_item |-> 0,
         form |-> [title_edit |-> "", desc_edit |-> "", max_checkpoints |-> 0, sun_altitude |-> 0,
                   node_id |-> "", node_type |-> "", node_shape |-> "cube", node_material |-> "default",
                   pos_x |-> 0, pos_y |-> 0, pos_z |-> 0, rot_x |-> 0, rot_y |-> 0, rot_z |-> 0,
                   scale_x |-> 0, scale_y |-> 0, scale_z |-> 0,
                   node_radius |-> 0, node_text |-> "", node_mode |-> 0],
         dialog |-> "none"],
        DEFAULT_JSON).s

InitMainWindow ==
    /\ app = "MainWindow"
    /\ self_nodes = S1_Constructed.nodes
    /\ scene_data = S1_Constructed.scene_data
    /\ current_path = S1_Constructed.current_path
    /\ _editing_node = S1_Constructed.editing
    /\ node_list = S1_Constructed.node_list
    /\ current_item = S1_Constructed.current_item
    /\ form = S1_Constructed.form
    /\ dialog = "none"
    /\ ops = 0
    /\ IdleLevelEditor
    /\ IdleCodec

\* the user makes another item of the list current: currentItemChanged
CurrentItemChanged ==
    /\ app = "MainWindow"
    /\ \E row \in 1..Len(node_list) :
           /\ row # current_item
           /\ S1_Commit(S1_on_node_selected([MW EXCEPT !.current_item = row], row))

OnAddLevelNode ==
    /\ app = "MainWindow"
    /\ \E selected_type \in AddNodeTypes : S1_Commit(on_add_level_node(MW, selected_type))

OnDuplicateNode ==
    /\ app = "MainWindow"
    /\ \E selected_type \in AddNodeTypes : S1_Commit(on_duplicate_node(MW, selected_type))

OnRemoveNode ==
    /\ app = "MainWindow"
    /\ \E neighbour \in {"after", "before"} : S1_Commit(on_remove_node(MW, neighbour))

\* the user types into an enabled property widget; nothing is connected to it
EditPropertyWidget ==
    /\ app = "MainWindow"
    /\ \E e \in S1_PropEdits :
           /\ WidgetEnabled(MW, e[1])
           /\ form[e[1]] # e[2]
           /\ S1_Commit([MW EXCEPT !.form[e[1]] = e[2]])

OnApplyNode ==
    /\ app = "MainWindow"
    /\ S1_Commit(on_apply_node(MW))

S1_OnPickNodeColor ==
    /\ app = "MainWindow"
    /\ \E color_field \in S1_ColorFields, c \in PickedColors :
           /\ WidgetEnabled(MW, color_field)
           /\ S1_Commit(S1_on_pick_node_color(MW, color_field, c))

OnNew ==
    /\ app = "MainWindow"
    /\ \E answer \in {"Yes", "No"} : S1_Commit(on_new(MW, answer))

OnOpen ==
    /\ app = "MainWindow"
    /\ \E file \in S1_LevelFiles : S1_Commit(on_open(MW, file))

\* the user edits the title: editingFinished calls _commit_ui_to_data
TitleEditingFinished ==
    /\ app = "MainWindow"
    /\ S1_Commit(_commit_ui_to_data([MW EXCEPT !.form.title_edit = "My Level"]).s)

\* the user changes the sun altitude: valueChanged calls _update_ambience_from_ui
SunAltitudeChanged ==
    /\ app = "MainWindow"
    /\ form.sun_altitude # 300
    /\ S1_Commit(_update_ambience_from_ui([MW EXCEPT !.form.sun_altitude = 300]).s)

NextMainWindow ==
    \/ CurrentItemChanged
    \/ OnAddLevelNode
    \/ OnDuplicateNode
    \/ OnRemoveNode
    \/ EditPropertyWidget
    \/ OnApplyNode
    \/ S1_OnPickNodeColor
    \/ OnNew
    \/ OnOpen
    \/ TitleEditingFinished
    \/ SunAltitudeChanged

SpecMainWindow == InitMainWindow /\ [][NextMainWindow]_vars

(***************************************************************************)
(* Both editors: either one is started and run.                            *)
(***************************************************************************)
Init == InitLevelEditor \/ InitMainWindow

Next == NextLevelEditor \/ NextMainWindow

Spec == Init /\ [][Next]_vars

(***************************************************************************)
(* Properties of the codec (under SpecCodec).                              *)
(***************************************************************************)
\* the nested object of the input, when it is a mapping; the empty mapping otherwise
InputNested ==
    IF obj.keys # <<>> /\ IsMapping(obj.m[obj.keys[1]]) THEN obj.m[obj.keys[1]].v ELSE EmptyDict

\* the keys that the round-trip claim calls promoted
PromotedKeys ==
    {"position", "scale", "rotation", "shape", "material", "color1", "radius", "text", "mode"}

\* every unpromoted key of the input's nested object is under the same type key of the output, with an equal value
ExtraKeysKept ==
    \A k \in DOMAIN InputNested \ PromotedKeys :
        /\ obj.keys[1] \in DOMAIN emitted.m
        /\ IsMapping(emitted.m[obj.keys[1]])
        /\ k \in DOMAIN emitted.m[obj.keys[1]].v
        /\ emitted.m[obj.keys[1]].v[k] = InputNested[k]

\* position and scale of the input are absent, empty, or mappings whose x, y, z convert to float:
\* from_json builds the node from the input and does not fall back to SceneNode()
VectorConverts(key) ==
    \/ key \notin DOMAIN InputNested
    \/ Falsy(InputNested[key])
    \/ /\ IsMapping(InputNested[key])
       /\ \A c \in {"x", "y", "z"} \cap DOMAIN InputNested[key].v : PyFloat(InputNested[key].v[c]).ok

BuiltFromInput == VectorConverts("position") /\ VectorConverts("scale")

\* C5 as stated: for any {T: nested} that from_json parsed and to_json serialized again,
\* every key of nested outside the promoted set is under T in the output with an equal value.
C5_AnyParsedObjectKeepsExtraKeys == emitted # Pending => ExtraKeysKept

\* C5, amended: the same for every object that from_json parsed without falling back
\* to the default node (its position and scale convert).
C5_ParsedWithoutFallbackKeepsExtraKeys == (emitted # Pending /\ BuiltFromInput) => ExtraKeysKept

\* C5's case: a Gravity object with the unknown key foo was parsed and serialized
C5_Witness ==
    /\ emitted # Pending
    /\ BuiltFromInput
    /\ obj.keys[1] = "levelNodeGravity"
    /\ "foo" \in DOMAIN InputNested
    /\ "foo" \in DOMAIN emitted.m["levelNodeGravity"].v

\* C6: from_json never propagates an exception: whatever the node object, it returns a node.
C6_FromJsonNeverRaises == parsed # Raised

\* C10: when from_json parsed a non-Static node from a nested object with a scale key,
\* to_json emits a scale key that holds the node's sx, sy, sz.
C10_NonStaticScaleEmitted ==
    (emitted # Pending /\ parsed.val.type # "levelNodeStatic" /\ "scale" \in DOMAIN InputNested)
    => /\ "scale" \in DOMAIN emitted.m[parsed.val.type].v
       /\ emitted.m[parsed.val.type].v["scale"] = ScaleOf(parsed.val)

(***************************************************************************)
(* Properties of the schema 2 editor (under SpecLevelEditor).              *)
(***************************************************************************)
\* the node ids of a forest, depth first
RECURSIVE AllIds(_)
AllIds(nodes) ==
    IF nodes = <<>> THEN <<>>
    ELSE <<Head(nodes).node_id>> \o AllIds(Head(nodes).children) \o AllIds(Tail(nodes))

\* the paths of a forest's nodes, in the order of the rows of the node list
RECURSIVE RowPathsFrom(_, _, _)
RowPathsFrom(nodes, i, prefix) ==
    IF i > Len(nodes) THEN <<>>
    ELSE <<Append(prefix, i)>>
         \o RowPathsFrom(nodes[i].children, 1, Append(prefix, i))
         \o RowPathsFrom(nodes, i + 1, prefix)

RowPaths(nodes) == RowPathsFrom(nodes, 1, <<>>)

\* the forest without the node at the path, and nothing else changed
RECURSIVE RemoveAt(_, _)
RemoveAt(nodes, path) ==
    IF Len(path) = 1 THEN DelAt(nodes, path[1])
    ELSE [nodes EXCEPT ![path[1]].children = RemoveAt(@, Tail(path))]

\* the entries nested in a levelNodes entry of a file
EntryChildren(e) ==
    IF "Node" \in DOMAIN e /\ "groupResponse" \in DOMAIN e.Node
    THEN Get(e.Node.groupResponse, "childNodes", <<>>)
    ELSE <<>>

\* the paths of the entries of a file, nested ones included
RECURSIVE EntryPathsFrom(_, _, _)
EntryPathsFrom(entries, i, prefix) ==
    IF i > Len(entries) THEN {}
    ELSE {Append(prefix, i)}
         \cup EntryPathsFrom(EntryChildren(entries[i]), 1, Append(prefix, i))
         \cup EntryPathsFrom(entries, i + 1, prefix)

RECURSIVE EntryAt(_, _)
EntryAt(entries, path) ==
    IF Len(path) = 1 THEN entries[path[1]]
    ELSE EntryAt(EntryChildren(entries[path[1]]), Tail(path))

\* the level files that open_level can read and parse
ParsedFiles == { f \in LevelFiles : f.name # "" /\ f.readable /\ f.valid_json }

\* C1: the node_id values of all nodes of the forest are pairwise distinct, after
\* open_level and after any duplicate, add or delete.
C1_NodeIdsDistinct ==
    \A i, j \in 1..Len(AllIds(scene_nodes)) :
        i # j => AllIds(scene_nodes)[i] # AllIds(scene_nodes)[j]

\* C2: after a file is loaded, for every entry of the file (nested ones included) with
\* id k, _find_node_by_id(k) returns the node decoded from that entry, which is the node
\* at the entry's place in the forest.
C2_FindReturnsNodeOfEntry ==
    \A f \in ParsedFiles :
        dialog = "Successfully loaded " \o f.name =>
            \A p \in EntryPathsFrom(f.data.levelNodes, 1, <<>>) :
                _find_node_by_id(EntryAt(f.data.levelNodes, p).id, scene_nodes) = p

\* C3: every id that _get_next_id returns is strictly greater than every id it returned
\* before for the scene: the ids of a handler increase, and exceed those of earlier handlers.
C3_IdsNeverReused ==
    \A i \in 1..Len(issued.now) :
        /\ issued.now[i] > issued.before
        /\ \A j \in 1..(i - 1) : issued.now[j] < issued.now[i]

\* C4: a confirmed delete_selected_node removes exactly the node whose list entry is
\* selected: the forest afterwards is the forest before without the node of that row.
C4_DeleteRemovesSelectedOnly ==
    [][(/\ dialog' = "Confirm Delete"
        /\ scene_nodes' # scene_nodes
        /\ node_list = populate_list(scene_nodes))
       => scene_nodes' = RemoveAt(scene_nodes, RowPaths(scene_nodes)[current_item])]_vars

\* the node types of the entries that node_from_dict can decode, in file order
RECURSIVE DecodableTypes(_)
DecodableTypes(entries) ==
    IF entries = <<>> THEN <<>>
    ELSE (IF node_from_dict(Head(entries), 1).ok
          THEN <<node_from_dict(Head(entries), 1).val.node_type>> ELSE <<>>)
         \o DecodableTypes(Tail(entries))

\* the messages of open_level once it has started to decode the entries of f
DecodeDialogs(f) ==
    { "Successfully loaded " \o f.name,
      "Failed to open level file: 'Node'",
      "Failed to open level file: 'list' object has no attribute 'get'" }

\* C7: an entry of levelNodes that cannot be decoded does not abort open_level: after the
\* load, the forest holds a node for every other top-level entry, in file order.
C7_UndecodableEntrySkipped ==
    \A f \in ParsedFiles :
        (level_file_path = f.name /\ dialog \in DecodeDialogs(f))
        => [i \in 1..Len(scene_nodes) |-> scene_nodes[i].node_type] = DecodableTypes(f.data.levelNodes)

(***************************************************************************)
(* Properties of both editors (under Spec).                                *)
(***************************************************************************)
\* the error dialogs of open_level and on_open
OpenErrorDialogs ==
    { "Failed to open level file: " \o why :
        why \in {"[Errno 13] Permission denied", "Expecting value", "'Node'",
                 "'list' object has no attribute 'get'"} }
    \cup
    { "Failed to open file:\n" \o why :
        why \in {"[Errno 13] Permission denied", "Expecting value",
                 "'list' object has no attribute 'get'", "'str' object has no attribute 'get'",
                 "could not convert string to float", "invalid literal for int() with base 10"} }

\* C8: when an open fails and shows the error dialog, the node collection, scene_data and
\* the current file path are what they were before the attempt.
C8_FailedOpenChangesNothing ==
    [][dialog' \in OpenErrorDialogs
       => UNCHANGED <<scene_nodes, self_nodes, scene_data, level_file_path, current_path>>]_vars

\* the path leads to a node of the forest
RECURSIVE ValidPath(_, _)
ValidPath(nodes, path) ==
    /\ path # <<>>
    /\ path[1] \in 1..Len(nodes)
    /\ Len(path) > 1 => ValidPath(nodes[path[1]].children, Tail(path))

\* C9: in both editors _editing_node is none or refers to a node that the scene's node
\* collection contains.
C9_EditingNodeInCollection ==
    \/ _editing_node = None
    \/ /\ _editing_node.kind = "in"
       /\ ValidPath(IF app = "LevelEditor" THEN scene_nodes ELSE self_nodes, _editing_node.path)

\* C9's case: the node being edited was deleted and no reference to it is left
C9_Witness ==
    /\ app = "LevelEditor"
    /\ dialog = "Confirm Delete"
    /\ CountNodes(scene_nodes) = 2
    /\ _editing_node = None

(***************************************************************************)
(* Properties of duplication.                                              *)
(***************************************************************************)
\* C11: schema 1: in every state with a current item, the copy that on_duplicate_node
\* appends has an id string different from the id of the node it was copied from.
C11_DuplicateIdDiffers ==
    (app = "MainWindow" /\ current_item # 0) =>
        LET original_node == Deref(self_nodes, node_list[current_item].data)
            s == on_duplicate_node(MW, "levelNodeStatic")
        IN s.nodes[Len(s.nodes)].id # original_node.id

\* the schema 2 copy is the original but for its ids, its position and its children
SameButPlace(copy, orig) ==
    [copy EXCEPT !.node_id = 0, !.parent_id = 0, !.position = Vector(0, 0, 0), !.children = <<>>]
    = [orig EXCEPT !.node_id = 0, !.parent_id = 0, !.position = Vector(0, 0, 0), !.children = <<>>]

\* C12: in both editors a step that duplicates a node at (x, y, z) appends exactly one
\* copy at (x+1, y+1, z) and leaves the original and every other node as they were.
C12_DuplicateAppendsOffsetCopy ==
    [][/\ (DuplicateSelectedNode /\ _editing_node # None) =>
              LET orig == Deref(scene_nodes, _editing_node)
                  copy == scene_nodes'[Len(scene_nodes')]
              IN /\ Len(scene_nodes') = Len(scene_nodes) + 1
                 /\ SubSeq(scene_nodes', 1, Len(scene_nodes)) = scene_nodes
                 /\ copy.position = [orig.position EXCEPT !.x = @ + 10, !.y = @ + 10]
                 /\ SameButPlace(copy, orig)
       /\ (OnDuplicateNode /\ current_item # 0) =>
              LET orig == Deref(self_nodes, node_list[current_item].data)
                  copy == self_nodes'[Len(self_nodes')]
              IN /\ Len(self_nodes') = Len(self_nodes) + 1
                 /\ SubSeq(self_nodes', 1, Len(self_nodes)) = self_nodes
                 /\ copy.x = orig.x + 10 /\ copy.y = orig.y + 10 /\ copy.z = orig.z
                 /\ [copy EXCEPT !.id = orig.id, !.x = orig.x, !.y = orig.y] = orig
      ]_vars

\* C12's case: the Start node at (0, 0.5, 0) was duplicated; its copy at (1, 1.5, 0) is
\* the new last node
C12_Witness ==
    /\ app = "LevelEditor"
    /\ Len(scene_nodes) = 4
    /\ scene_nodes[1].position = Vector(0, 5, 0)
    /\ scene_nodes[4].node_type = "LevelNodeStart"
    /\ scene_nodes[4].position = Vector(10, 15, 0)

(***************************************************************************)
(* More properties of the codec (under SpecCodec).                         *)
(***************************************************************************)
\* the key is absent from the input's nested mapping, or its value is not an integer
AbsentOrNotInteger(key) == key \notin DOMAIN InputNested \/ InputNested[key].t # "int"

\* C13: whenever the nested mapping of the input has no shape (material) key, or the value
\* under it is not an integer, from_json returns a node whose shape is 1000 (whose
\* material is 0).
C13_ShapeMaterialDefaulted ==
    (parsed # Pending /\ IsMapping(obj.m[obj.keys[1]])) =>
        /\ AbsentOrNotInteger("shape") => (parsed.ok /\ parsed.val.shape = 1000)
        /\ AbsentOrNotInteger("material") => (parsed.ok /\ parsed.val.material = 0)

(***************************************************************************)
(* More properties of the schema 2 editor (under SpecLevelEditor).         *)
(***************************************************************************)
\* the fields that are not valid for a node type
FieldNotForType(prop, node_type) ==
    \/ prop = "text" /\ node_type # "LevelNodeSign"
    \/ prop = "material" /\ node_type # "LevelNodeStatic"
    \/ prop = "shape" /\ node_type \notin {"LevelNodeStatic", "LevelNodeCrumbling", "LevelNodeSign"}
    \/ prop \in {"stable_time", "respawn_time"} /\ node_type # "LevelNodeCrumbling"
    \/ prop = "radius" /\ node_type \notin {"LevelNodeStart", "LevelNodeFinish"}

\* C14: a step of _update_node_prop for a field that is not valid for the type of the
\* selected node leaves that node, and the whole scene, unchanged.
C14_InvalidFieldIgnored ==
    [][\A e \in PropEdits :
           (/\ app = "LevelEditor"
            /\ _editing_node # None
            /\ FieldNotForType(e[1], Deref(scene_nodes, _editing_node).node_type)
            /\ form[e[1]] # e[2]
            /\ Commit(_update_node_prop([LE EXCEPT !.form[e[1]] = e[2]], e[1], e[2])))
           => scene_nodes' = scene_nodes]_vars

\* C14's case: a node of the default scene, none of which is a Sign, was selected and the
\* text widget was changed to Exit; the scene is the default scene still
C14_Witness ==
    /\ app = "LevelEditor"
    /\ ops = 2
    /\ form.text = "Exit"
    /\ scene_nodes = Constructed.scene_nodes
    /\ _editing_node = None
    /\ current_item = 0
    /\ dialog = "none"

\* the types of the nodes of a forest, level by level and in order
RECURSIVE TypeTree(_)
TypeTree(nodes) ==
    [i \in 1..Len(nodes) |-> [node_type |-> nodes[i].node_type, children |-> TypeTree(nodes[i].children)]]

\* C15: a step of duplicate_selected_node on a Group appends a copy with parent_id 0
\* whose subtree has the number, order and types of the original's descendants at every
\* level, and leaves the original subtree as it was.
C15_GroupCopyKeepsStructure ==
    [][(/\ DuplicateSelectedNode
        /\ _editing_node # None
        /\ Deref(scene_nodes, _editing_node).node_type = "LevelNodeGroup")
       => LET orig == Deref(scene_nodes, _editing_node)
              copy == scene_nodes'[Len(scene_nodes')]
          IN /\ Len(scene_nodes') = Len(scene_nodes) + 1
             /\ copy.node_type = "LevelNodeGroup"
             /\ copy.parent_id = 0
             /\ TypeTree(copy.children) = TypeTree(orig.children)
             /\ SubSeq(scene_nodes', 1, Len(scene_nodes)) = scene_nodes]_vars

\* C15's case: the group of nested.json, which holds a group that holds a Start node, was
\* duplicated: the scene ends with the Sign node and a second group of the same structure
C15_Witness ==
    /\ app = "LevelEditor"
    /\ Len(scene_nodes) = 3
    /\ scene_nodes[2].node_type = "LevelNodeSign"
    /\ scene_nodes[3].node_type = "LevelNodeGroup"
    /\ scene_nodes[3].parent_id = 0
    /\ scene_nodes[3].position = [scene_nodes[1].position EXCEPT !.x = @ + 10, !.y = @ + 10]
    /\ TypeTree(scene_nodes[3].children) = TypeTree(scene_nodes[1].children)
    /\ Len(scene_nodes[3].children[1].children) = 1

(***************************************************************************)
(* The id allocator of the schema 2 editor on its own: _get_next_id is     *)
(* called on a scene whose forest is one of Forests.                       *)
(***************************************************************************)
\* forests of at most two trees; a tree is a node, or a group that holds at most one
\* node or group, which in turn holds at most one node; every id is in 1..MaxNodeId
Forests ==
    LET Ids == 1..MaxNodeId
        Leaf(id, pid) == [SceneNode(id) EXCEPT !.parent_id = pid]
        Group(id, pid, children) ==
            [SceneNode(id) EXCEPT !.node_type = "LevelNodeGroup", !.parent_id = pid,
                                  !.children = children]
        AtMostOne(S) == {<<>>} \cup { <<x>> : x \in S }
        Leaves(pid) == { Leaf(id, pid) : id \in Ids }
        InnerGroups(pid) ==
            UNION { { Group(id, pid, c) : c \in AtMostOne(Leaves(id)) } : id \in Ids }
        Trees ==
            Leaves(0)
            \cup UNION { { Group(id, 0, c) : c \in AtMostOne(Leaves(id) \cup InnerGroups(id)) } :
                         id \in Ids }
    IN {<<>>} \cup { <<t>> : t \in Trees } \cup { <<t, u>> : t \in Trees, u \in Trees }

InitGetNextId ==
    /\ app = "LevelEditor"
    /\ scene_nodes \in Forests
    /\ scene_data = DefaultSceneData
    /\ level_file_path = "None"
    /\ _editing_node = None
    /\ next_node_id = 1
    /\ node_list = populate_list(scene_nodes)
    /\ current_item = 0
    /\ form = Constructed.form
    /\ dialog = "none"
    /\ issued = [before |-> 0, now |-> <<>>]
    /\ camera_pos = Vector(0, 30, 100)
    /\ ops = 0
    /\ IdleMainWindow
    /\ IdleCodec

GetNextId ==
    /\ app = "LevelEditor"
    /\ issued.now = <<>>
    /\ Commit(_get_next_id(LE))

SpecGetNextId == InitGetNextId /\ [][GetNextId]_vars

\* the greatest id of the forest, whatever the depth of the node that has it
GreatestId(nodes) ==
    LET ids == { AllIds(nodes)[i] : i \in 1..Len(AllIds(nodes)) }
    IN CHOOSE m \in ids : \A k \in ids : k <= m

\* C16: _get_next_id returns 1 when the scene has no nodes, and otherwise 1 plus the
\* greatest node_id of the whole forest, the children of nested groups included.
C16_NextIdIsGreatestPlusOne ==
    issued.now # <<>> =>
        /\ issued.now = << IF scene_nodes = <<>> THEN 1 ELSE 1 + GreatestId(scene_nodes) >>
        /\ next_node_id = issued.now[1]

\* C16's case: the greatest id, 3, is that of a node in a group in a group whose ids are
\* smaller, and _get_next_id returned 4
C16_Witness ==
    /\ issued.now = <<4>>
    /\ Len(scene_nodes) = 1
    /\ scene_nodes[1].node_id = 1
    /\ scene_nodes[1].children[1].node_id = 2
    /\ scene_nodes[1].children[1].children[1].node_id = 3

\* the path of the node that the current row of the node list shows
CurrentRowPath == RowPaths(scene_nodes)[current_item]

\* C17: a confirmed delete whose row shows a Group calls _remove_node_by_id with the
\* group's id; that one call removes a whole subtree that holds the group and all of its
\* descendants, and a scene that was just the group and its children is empty afterwards.
C17_GroupRemovedWithDescendants ==
    [][(/\ app = "LevelEditor"
        /\ current_item # 0
        /\ node_list = populate_list(scene_nodes)
        /\ NodeAt(scene_nodes, CurrentRowPath).node_type = "LevelNodeGroup"
        /\ Commit(delete_selected_node(LE, "Yes")))
       => /\ \E k \in 1..Len(CurrentRowPath) :
                 scene_nodes' = RemoveAt(scene_nodes, SubSeq(CurrentRowPath, 1, k))
          /\ (Len(scene_nodes) = 1 /\ CurrentRowPath = <<1>>) => scene_nodes' = <<>>]_vars

\* C17's case: group.json, one group with two children, was opened, the group's row was
\* selected and the delete was confirmed: no node is left
C17_Witness ==
    /\ app = "LevelEditor"
    /\ ops = 3
    /\ level_file_path = "group.json"
    /\ dialog = "Confirm Delete"
    /\ scene_nodes = <<>>

\* C18: a step of add_new_node appends exactly one node of the requested type at the end
\* of the root list, with a node_id greater than the node_id of every node that was in
\* the forest, and leaves every node that was there unchanged.
C18_AddAppendsOneFreshNode ==
    [][\A b \in AddButtons :
           (/\ app = "LevelEditor"
            /\ Commit(add_new_node(LE, b[1], b[2],
                                   Vector(camera_pos.x, camera_pos.y, camera_pos.z - 50),
                                   Vector(10, 10, 10), "default")))
           => LET new_node == scene_nodes'[Len(scene_nodes')]
              IN /\ Len(scene_nodes') = Len(scene_nodes) + 1
                 /\ SubSeq(scene_nodes', 1, Len(scene_nodes)) = scene_nodes
                 /\ new_node.node_type = b[1]
                 /\ \A i \in 1..Len(AllIds(scene_nodes)) : new_node.node_id > AllIds(scene_nodes)[i]]_vars

\* C18's case: a Finish node was added to the default scene of three nodes; it is the
\* fourth root node, has id 4 and stands in front of the camera
C18_Witness ==
    /\ app = "LevelEditor"
    /\ Len(scene_nodes) = 4
    /\ SubSeq(scene_nodes, 1, 3) = Constructed.scene_nodes
    /\ scene_nodes[4].node_type = "LevelNodeFinish"
    /\ scene_nodes[4].node_id = 4
    /\ scene_nodes[4].position = Vector(0, 30, 50)

(***************************************************************************)
(* Schema 2: node_to_dict, and the round trip of a node of the scene       *)
(* through node_to_dict and node_from_dict.                                *)
(***************************************************************************)
\* a faulty variant of vector_to_dict that writes y and z under each other's key
vector_to_dict_swapped(v) == JDict([x |-> v.x, y |-> v.z, z |-> v.y])

vector_to_dict(v) == JDict([x |-> v.x, y |-> v.y, z |-> v.z])

quaternion_to_dict(q) == JDict([x |-> q.x, y |-> q.y, z |-> q.z, w |-> q.w])

\* 'a': c.a or 1.0
color_to_dict(c) == JDict([r |-> c.r, g |-> c.g, b |-> c.b, a |-> IF c.a = 0 THEN 10 ELSE c.a])

\* a faulty variant of node_to_dict that writes every node with the keys of a Finish node
node_to_dict_without_rotation(node) ==
    [id |-> node.node_id, parentId |-> node.parent_id,
     Node |-> ((CASE node.node_type = "LevelNodeStart" -> "startResponse"
                  [] node.node_type = "LevelNodeFinish" -> "finishResponse"
                  [] OTHER -> "staticResponse")
               :> [position |-> vector_to_dict(node.position), radius |-> node.radius])]

RECURSIVE node_to_dict(_)
node_to_dict(node) ==
    LET entry(node_key, node_content) ==
            [id |-> node.node_id, parentId |-> node.parent_id, Node |-> (node_key :> node_content)]
    IN CASE node.node_type = "LevelNodeStart" ->
              entry("startResponse",
                    [position |-> vector_to_dict(node.position),
                     rotation |-> quaternion_to_dict(node.rotation),
                     radius |-> node.radius])
         [] node.node_type = "LevelNodeFinish" ->
              entry("finishResponse",
                    [position |-> vector_to_dict(node.position), radius |-> node.radius])
         [] node.node_type = "LevelNodeStatic" ->
              entry("staticResponse",
                    [shape |-> Get(SHAPES, node.shape, 1000),
                     material |-> Get(MATERIALS, node.material, 0),
                     position |-> vector_to_dict(node.position),
                     scale |-> vector_to_dict(node.scale),
                     rotation |-> quaternion_to_dict(node.rotation),
                     color |-> color_to_dict(node.color)])
         [] node.node_type = "LevelNodeCrumbling" ->
              entry("crumblingResponse",
                    [shape |-> Get(SHAPES, node.shape, 1000),
                     material |-> Get(MATERIALS, "crumbling", 2),
                     position |-> vector_to_dict(node.position),
                     scale |-> vector_to_dict(node.scale),
                     rotation |-> quaternion_to_dict(node.rotation),
                     stableTime |-> node.stable_time,
                     respawnTime |-> node.respawn_time])
         [] node.node_type = "LevelNodeSign" ->
              entry("signResponse",
                    [shape |-> Get(SHAPES, node.shape, 1000),
                     position |-> vector_to_dict(node.position),
                     scale |-> vector_to_dict(node.scale),
                     rotation |-> quaternion_to_dict(node.rotation),
                     color |-> color_to_dict(node.color),
                     text |-> node.text])
         [] node.node_type = "LevelNodeGroup" ->
              entry("groupResponse",
                    [position |-> vector_to_dict(node.position),
                     rotation |-> quaternion_to_dict(node.rotation),
                     scale |-> vector_to_dict(node.scale),
                     childNodes |-> [i \in 1..Len(node.children) |-> node_to_dict(node.children[i])]])
         [] OTHER -> JNull                                  \* return None

\* the nodes that are serialized and parsed again: Start nodes of several positions,
\* radii and rotations, a Finish node, Static and Sign nodes of several colors, and
\* Crumbling nodes whose material field holds several names
RoundTripColors == { Color(10, 10, 10, 10), Color(5, 0, 2, 5), Color(2, 10, 0, 0) }

RoundTripNodes ==
    { [SceneNode(1) EXCEPT !.node_type = "LevelNodeStart", !.shape = "sphere",
                           !.position = Vector(x, y, z), !.radius = r, !.rotation.y = ry] :
        x \in {-10, 0, 25}, y \in {0, 5, 40}, z \in {0, 30}, r \in {0, 5, 20}, ry \in {0, 900} }
    \cup { [SceneNode(1) EXCEPT !.node_type = "LevelNodeFinish", !.shape = "sphere",
                                !.position = Vector(0, 50, 0)] }
    \cup { [SceneNode(1) EXCEPT !.node_type = T, !.color = c, !.material = m] :
             T \in {"LevelNodeStatic", "LevelNodeSign"}, c \in RoundTripColors, m \in {"default", "wood"} }
    \cup { [SceneNode(1) EXCEPT !.node_type = "LevelNodeCrumbling", !.material = m, !.stable_time = 20] :
             m \in {"default", "crumbling", "lava death", "no such material"} }

InitNodeRoundTrip ==
    /\ app = "LevelEditor"
    /\ \E n \in RoundTripNodes : scene_nodes = <<n>>
    /\ scene_data = DefaultSceneData
    /\ level_file_path = "None"
    /\ _editing_node = None
    /\ next_node_id = 1
    /\ node_list = populate_list(scene_nodes)
    /\ current_item = 0
    /\ form = Constructed.form
    /\ dialog = "none"
    /\ issued = [before |-> 0, now |-> <<>>]
    /\ camera_pos = Vector(0, 30, 100)
    /\ ops = 0
    /\ IdleMainWindow
    /\ IdleCodec

\* node_to_dict(n) for the node of the scene
NodeToDict ==
    /\ emitted = Pending
    /\ emitted' = node_to_dict(scene_nodes[1])
    /\ UNCHANGED <<app, ops, le_vars, mw_vars, obj, parsed>>

\* node_from_dict(d, next_id) for the dict that node_to_dict gave
NodeFromDict ==
    /\ emitted # Pending
    /\ parsed = Pending
    /\ \E next_id \in 1..MaxNodeId : parsed' = node_from_dict(emitted, next_id)
    /\ UNCHANGED <<app, ops, le_vars, mw_vars, obj, emitted>>

NextNodeRoundTrip == NodeToDict \/ NodeFromDict

SpecNodeRoundTrip == InitNodeRoundTrip /\ [][NextNodeRoundTrip]_vars

\* C19: for a Start node n of any position and radius, node_from_dict(node_to_dict(n))
\* is a Start node with the position and the radius of n.
C19_StartNodeRoundTrip ==
    (parsed # Pending /\ scene_nodes[1].node_type = "LevelNodeStart") =>
        /\ parsed.ok
        /\ parsed.val.node_type = "LevelNodeStart"
        /\ parsed.val.position = scene_nodes[1].position
        /\ parsed.val.radius = scene_nodes[1].radius

\* C19's case: a Start node at (-1, 0.5, 3) with radius 2 went through node_to_dict and
\* node_from_dict and came back at the same place with the same radius
C19_Witness ==
    /\ scene_nodes[1].node_type = "LevelNodeStart"
    /\ scene_nodes[1].position = Vector(-10, 5, 30)
    /\ scene_nodes[1].radius = 20
    /\ parsed # Pending
    /\ parsed.ok
    /\ parsed.val.position = Vector(-10, 5, 30)
    /\ parsed.val.radius = 20

(***************************************************************************)
(* Rotation in the schema 1 codec (under SpecCodec).                       *)
(***************************************************************************)
\* C20: rotation is never persisted: the node that from_json returns for the input has
\* rx = ry = rz = 0 whatever the rotation of the input, and what to_json emits for a node
\* has the rotation {w: 1, x: 0, y: 0, z: 0} whatever the node's rx, ry, rz.
C20_RotationNeverPersisted ==
    /\ (parsed # Pending /\ from_json(obj).ok) =>
           /\ from_json(obj).val.rx = 0
           /\ from_json(obj).val.ry = 0
           /\ from_json(obj).val.rz = 0
    /\ emitted # Pending =>
           emitted.m[parsed.val.type].v["rotation"]
           = JDict([w |-> JFloat(10), x |-> JFloat(0), y |-> JFloat(0), z |-> JFloat(0)])

\* C20's case: the input had a rotation that is not the identity, the parsed node was
\* turned by 90 and -45 degrees, and to_json emitted the identity rotation for it
C20_Witness ==
    /\ "rotation" \in DOMAIN InputNested
    /\ InputNested["rotation"].v["x"] = JFloat(7)
    /\ parsed # Pending
    /\ parsed.ok
    /\ parsed.val.rx = 900
    /\ parsed.val.rz = -450
    /\ emitted # Pending
    /\ emitted.m[parsed.val.type].v["rotation"].v["x"] = JFloat(0)

\* the object {"levelNodeStatic": {}}
EmptyStaticObject == [keys |-> <<"levelNodeStatic">>, m |-> ("levelNodeStatic" :> JDict(EmptyDict))]

\* C21: from_json({"levelNodeStatic": {}}) is a levelNodeStatic node with shape 1000,
\* material 0, position (0,0,0), scale (1,1,1), color1 opaque white, color opaque black
\* and an empty raw_data.
C21_EmptyStaticGetsDefaults ==
    (obj = EmptyStaticObject /\ parsed # Pending) =>
        /\ from_json(obj).ok
        /\ LET node == from_json(obj).val IN
           /\ node.type = "levelNodeStatic"
           /\ node.shape = 1000
           /\ node.material = 0
           /\ <<node.x, node.y, node.z>> = <<0, 0, 0>>
           /\ <<node.sx, node.sy, node.sz>> = <<10, 10, 10>>
           /\ node.color1 = JColor(10, 10, 10, 10)
           /\ node.color = JColor(0, 0, 0, 10)
           /\ node.raw_data = EmptyDict

\* C21's case: {"levelNodeStatic": {}} was parsed and a cube of the default material came back
C21_Witness ==
    /\ obj = EmptyStaticObject
    /\ parsed # Pending
    /\ parsed.ok
    /\ parsed.val.shape = 1000
    /\ parsed.val.sx = 10
    /\ parsed.val.raw_data = EmptyDict

(***************************************************************************)
(* Saving, in both editors.  file_name is what the save dialog returns     *)
(* ("" when it is cancelled) and writable tells whether open(path, 'w')    *)
(* succeeds.                                                               *)
(***************************************************************************)
\* [node_to_dict(node) for node in self.scene_nodes]
NodeDicts(nodes) == [i \in 1..Len(nodes) |-> node_to_dict(nodes[i])]

\* a faulty variant of save_level that refreshes the whole UI after the attempt
save_level_refreshing(s, save_as, file_name, writable) ==
    IF (s.level_file_path = "None" \/ save_as) /\ file_name = "" THEN s
    ELSE [_update_ui_from_scene(s) EXCEPT
              !.dialog = IF writable THEN "Level successfully saved to " \o file_name
                         ELSE "Failed to save level file: [Errno 13] Permission denied"]

\* LevelEditor.save_level(save_as)
save_level(s, save_as, file_name, writable) ==
    IF (s.level_file_path = "None" \/ save_as) /\ file_name = "" THEN s
    ELSE LET s1 == IF s.level_file_path = "None" \/ save_as
                   THEN [s EXCEPT !.level_file_path = file_name]
                   ELSE s
             s2 == [s1 EXCEPT !.scene_data = [@ EXCEPT !.title = s.form.title_input,
                                                       !.levelNodes = NodeDicts(s.scene_nodes)]]
         IN IF writable
            THEN [s2 EXCEPT !.dialog = "Level successfully saved to " \o s2.level_file_path]
            ELSE [s2 EXCEPT !.dialog = "Failed to save level file: [Errno 13] Permission denied"]

\* the try block of on_save
WriteSceneData(s, writable) ==
    IF writable
    THEN [s EXCEPT !.dialog = "Saved to " \o s.current_path]
    ELSE [s EXCEPT !.dialog = "Failed to save file:\n[Errno 13] Permission denied"]

\* MainWindow.on_save_as, with the on_save that it calls once current_path is set;
\* an exception of _commit_ui_to_data leaves the handler
on_save_as(s, file_name, writable) ==
    IF file_name = "" THEN s
    ELSE LET c == _commit_ui_to_data([s EXCEPT !.current_path = file_name])
         IN IF c.ok THEN WriteSceneData(c.s, writable) ELSE c.s

\* MainWindow.on_save
on_save(s, file_name, writable) ==
    LET c == _commit_ui_to_data(s)
    IN IF ~c.ok THEN c.s
       ELSE IF c.s.current_path # "None" THEN WriteSceneData(c.s, writable)
       ELSE on_save_as(c.s, file_name, writable)

\* what the save dialog returns
SaveNames == {"", "out.json"}

\* File > Save and File > Save As of the schema 2 editor (lines 483-484)
SaveLevel ==
    /\ app = "LevelEditor"
    /\ \E save_as \in BOOLEAN, file_name \in SaveNames, writable \in BOOLEAN :
           Commit(save_level(LE, save_as, file_name, writable))

OnSave ==
    /\ app = "MainWindow"
    /\ \E file_name \in SaveNames, writable \in BOOLEAN : S1_Commit(on_save(MW, file_name, writable))

OnSaveAs ==
    /\ app = "MainWindow"
    /\ \E file_name \in SaveNames, writable \in BOOLEAN : S1_Commit(on_save_as(MW, file_name, writable))

NextSave == Next \/ SaveLevel \/ OnSave \/ OnSaveAs

SpecSave == Init /\ [][NextSave]_vars

\* the dialogs of a save whose write failed
FailedSaveDialogs ==
    { "Failed to save level file: [Errno 13] Permission denied",
      "Failed to save file:\n[Errno 13] Permission denied" }

\* C22: in both editors a save whose write fails leaves the node collection (membership,
\* order, every field of every node) and the selection as they were before the attempt.
C22_FailedSaveKeepsNodesAndSelection ==
    [][(dialog' \in FailedSaveDialogs /\ (SaveLevel \/ OnSave \/ OnSaveAs)) =>
           /\ scene_nodes' = scene_nodes
           /\ self_nodes' = self_nodes
           /\ _editing_node' = _editing_node
           /\ current_item' = current_item
           /\ node_list' = node_list]_vars

\* C22's case: in the schema 1 editor a node was added and is selected, and Save As
\* to out.json failed
C22_Witness ==
    /\ app = "MainWindow"
    /\ dialog = "Failed to save file:\n[Errno 13] Permission denied"
    /\ current_path = "out.json"
    /\ Len(self_nodes) = 1
    /\ current_item = 1
    /\ _editing_node # None

(***************************************************************************)
(* The periodic timers.  Every 16 ms the schema 2 editor runs              *)
(* Viewport.move_camera and redraws the viewport (paintGL, _draw_scene),   *)
(* and the schema 1 editor runs GLViewport._update_movement.  The keys     *)
(* that are down when a tick comes are an input of the tick; the angles    *)
(* of the camera are those of construction.  Directions are in             *)
(* thousandths, and a displacement is rounded to the tenths in which the   *)
(* model keeps positions.  In the schema 1 editor camera_pos holds         *)
(* pan_x, pan_y, pan_z of GLViewport.                                      *)
(***************************************************************************)
\* n / d, rounded to the nearest integer
RoundDiv(n, d) == IF n >= 0 THEN (2 * n + d) \div (2 * d) ELSE -((2 * (-n) + d) \div (2 * d))

\* the integer square root of q, searched between lo and hi
RECURSIVE ISqrt(_, _, _)
ISqrt(lo, hi, q) ==
    IF lo >= hi THEN lo
    ELSE CHOOSE r \in { IF mid * mid <= q THEN ISqrt(mid, hi, q) ELSE ISqrt(lo, mid - 1, q)
                        : mid \in {(lo + hi + 1) \div 2} } : TRUE

Plus(v, w) == Vector(v.x + w.x, v.y + w.y, v.z + w.z)

Minus(v, w) == Vector(v.x - w.x, v.y - w.y, v.z - w.z)

\* a faulty variant of move_camera that also moves the selected node along with the camera
move_camera_dragging_selection(v, keys_pressed) ==
    LET w == v.main_window IN
    IF "W" \in keys_pressed /\ w.editing.kind = "in"
    THEN [v EXCEPT !.camera_pos.z = @ + 2,
                   !.main_window = StoreEdited(w, [Deref(w.scene_nodes, w.editing) EXCEPT !.position.z = @ + 2])]
    ELSE v

\* Viewport.move_camera: the move_vector that the keys held down add up to, at
\* camera_yaw = -90 and camera_pitch = -15
MoveVector(keys_pressed) ==
    LET forward == Vector(0, 259, 966)             \* cos(yaw)cos(pitch), -sin(pitch), -sin(yaw)cos(pitch)
        strafe == Vector(-1000, 0, 0)              \* sin(yaw), 0, cos(yaw)
        f == (IF "W" \in keys_pressed THEN 1 ELSE 0) - (IF "S" \in keys_pressed THEN 1 ELSE 0)
        r == (IF "D" \in keys_pressed THEN 1 ELSE 0) - (IF "A" \in keys_pressed THEN 1 ELSE 0)
    IN Vector(f * forward.x + r * strafe.x, f * forward.y + r * strafe.y, f * forward.z + r * strafe.z)

\* Viewport.move_camera, "Apply movement": camera_pos += move_vector / mag * movement_speed,
\* at movement_speed = 0.2
ApplyMovement(v, move_vector, mag) ==
    IF move_vector = Vector(0, 0, 0) \/ mag = 0 THEN v
    ELSE [v EXCEPT !.camera_pos = Plus(@, Vector(RoundDiv(move_vector.x * 2, mag),
                                                 RoundDiv(move_vector.y * 2, mag),
                                                 RoundDiv(move_vector.z * 2, mag)))]

\* Viewport.move_camera; v is [camera_pos, main_window]
move_camera(v, keys_pressed) ==
    LET up == (IF "E" \in keys_pressed THEN 2 ELSE 0) - (IF "Q" \in keys_pressed THEN 2 ELSE 0)
        measured == { <<m, ISqrt(0, 3000, m.x * m.x + m.y * m.y + m.z * m.z)>>
                      : m \in {MoveVector(keys_pressed)} }
    IN CHOOSE moved \in { ApplyMovement([v EXCEPT !.camera_pos.y = @ + up], mv[1], mv[2])
                          : mv \in measured } : TRUE

\* Viewport._draw_scene: it reads main_window.scene_nodes and main_window._editing_node
\* and assigns nothing; what it gives is the nodes drawn, each with its highlight
RECURSIVE DrawNodes(_, _)
DrawNodes(nodes, selected_id) ==
    IF nodes = <<>> THEN <<>>
    ELSE <<[node_id |-> Head(nodes).node_id, is_selected |-> Head(nodes).node_id = selected_id]>>
         \o DrawNodes(Head(nodes).children, selected_id) \o DrawNodes(Tail(nodes), selected_id)

_draw_scene(v) ==
    LET w == v.main_window
        selected_id == IF w.editing.kind = "none" THEN -1 ELSE Deref(w.scene_nodes, w.editing).node_id
    IN [v EXCEPT !.drawn = DrawNodes(w.scene_nodes, selected_id)]

\* GLViewport._update_movement at camera_rot_x = 30, camera_rot_y = -45,
\* speed = move_speed * dt * camera_distance = 0.16; v is [pan, main_window]
_update_movement(v, is_right_mouse_down, keys) ==
    IF ~is_right_mouse_down \/ keys = {} THEN v
    ELSE LET forward == Vector(-612, -500, -612)   \* sin(ry)cos(rx), -sin(rx), -cos(ry)cos(rx)
             strafe == Vector(-707, 0, 707)        \* sin(ry - pi/2), 0, -cos(ry - pi/2)
             step(dir) == Vector(RoundDiv(dir.x * 16, 10000), RoundDiv(dir.y * 16, 10000),
                                 RoundDiv(dir.z * 16, 10000))
             p1 == IF "W" \in keys THEN Plus(v.pan, step(forward)) ELSE v.pan
             p2 == IF "S" \in keys THEN Minus(p1, step(forward)) ELSE p1
             p3 == IF "A" \in keys THEN Plus(p2, step(strafe)) ELSE p2
             p4 == IF "D" \in keys THEN Minus(p3, step(strafe)) ELSE p3
             p5 == IF "E" \in keys THEN [p4 EXCEPT !.y = @ + RoundDiv(16, 10)] ELSE p4
             p6 == IF "Q" \in keys THEN [p5 EXCEPT !.y = @ - RoundDiv(16, 10)] ELSE p5
         IN [v EXCEPT !.pan = p6]

\* the sets of keys that are down at a tick
KeySets == { {}, {"W"}, {"A", "D"} }

\* the state that a tick of the schema 2 editor leaves; a tick is one of the editor's events
CommitTick(v) ==
    /\ ops < MaxOps
    /\ camera_pos' = v.camera_pos
    /\ scene_nodes' = v.main_window.scene_nodes
    /\ scene_data' = v.main_window.scene_data
    /\ level_file_path' = v.main_window.level_file_path
    /\ _editing_node' = v.main_window.editing
    /\ next_node_id' = v.main_window.next_node_id
    /\ node_list' = v.main_window.node_list
    /\ current_item' = v.main_window.current_item
    /\ form' = v.main_window.form
    /\ ops' = ops + 1
    /\ UNCHANGED <<app, dialog, issued, mw_vars, codec_vars>>

\* Viewport.timer: move_camera
MoveCamera ==
    /\ app = "LevelEditor"
    /\ \E keys_pressed \in KeySets :
           \E v \in {move_camera([camera_pos |-> camera_pos, main_window |-> LE], keys_pressed)} :
               CommitTick(v)

\* LevelEditor.timer: viewport.update, which paints the scene
ViewportUpdate ==
    /\ app = "LevelEditor"
    /\ \E v \in {_draw_scene([camera_pos |-> camera_pos, main_window |-> LE, drawn |-> <<>>])} :
           CommitTick(v)

\* GLViewport.move_timer: _update_movement
UpdateMovement ==
    /\ app = "MainWindow"
    /\ ops < MaxOps
    /\ \E is_right_mouse_down \in BOOLEAN, keys \in KeySets :
           \E v \in {_update_movement([pan |-> camera_pos, main_window |-> MW], is_right_mouse_down, keys)} :
              /\ camera_pos' = v.pan
              /\ self_nodes' = v.main_window.nodes
              /\ scene_data' = v.main_window.scene_data
              /\ current_path' = v.main_window.current_path
              /\ _editing_node' = v.main_window.editing
              /\ node_list' = v.main_window.node_list
              /\ current_item' = v.main_window.current_item
              /\ form' = v.main_window.form
    /\ ops' = ops + 1
    /\ UNCHANGED <<app, dialog, scene_nodes, level_file_path, next_node_id, issued, codec_vars>>

NextTimer == Next \/ MoveCamera \/ ViewportUpdate \/ UpdateMovement

SpecTimer == Init /\ [][NextTimer]_vars

\* C23: in both editors a timer tick changes only camera state, wherever it falls among
\* the user's events: the node collection, every field of every node, the scene metadata
\* and the selection are what they were before the tick.
C23_TickChangesOnlyCamera ==
    [][(dialog' = dialog /\ issued' = issued /\ (MoveCamera \/ ViewportUpdate \/ UpdateMovement)) =>
           /\ scene_nodes' = scene_nodes
           /\ self_nodes' = self_nodes
           /\ scene_data' = scene_data
           /\ _editing_node' = _editing_node
           /\ current_item' = current_item
           /\ node_list' = node_list]_vars

\* C23's case: in the schema 2 editor a node of the default scene is selected and the
\* camera has moved forward from where it started, the scene still being the default one
C23_Witness ==
    /\ app = "LevelEditor"
    /\ camera_pos = Vector(0, 31, 102)
    /\ _editing_node # None
    /\ current_item # 0
    /\ scene_nodes = Constructed.scene_nodes

(***************************************************************************)
(* Properties of node_to_dict (under SpecNodeRoundTrip).                   *)
(***************************************************************************)
\* the content object that node_to_dict built for the node: the value under the one key of Node
EmittedContent == emitted.Node[CHOOSE k \in DOMAIN emitted.Node : TRUE]

\* C24: node_to_dict of a Crumbling node emits material = 2, whatever the node's
\* material field holds.
C24_CrumblingMaterialIsTwo ==
    (emitted # Pending /\ scene_nodes[1].node_type = "LevelNodeCrumbling") =>
        /\ DOMAIN emitted.Node = {"crumblingResponse"}
        /\ emitted.Node["crumblingResponse"].material = 2

\* C24's case: a Crumbling node whose material field says "lava death" was written with material 2
C24_Witness ==
    /\ scene_nodes[1].node_type = "LevelNodeCrumbling"
    /\ scene_nodes[1].material = "lava death"
    /\ emitted # Pending
    /\ emitted.Node["crumblingResponse"].material = 2

\* C25: the content object has exactly the keys position, rotation, radius for a Start
\* node, position, radius for a Finish node, and shape, material, position, scale,
\* rotation, color for a Static node.
C25_ContentKeysByType ==
    emitted # Pending =>
        LET node_type == scene_nodes[1].node_type IN
        /\ node_type = "LevelNodeStart" => DOMAIN EmittedContent = {"position", "rotation", "radius"}
        /\ node_type = "LevelNodeFinish" => DOMAIN EmittedContent = {"position", "radius"}
        /\ node_type = "LevelNodeStatic" =>
               DOMAIN EmittedContent = {"shape", "material", "position", "scale", "rotation", "color"}

\* C25's case: a Start node was written, and its content has a rotation
C25_Witness ==
    /\ scene_nodes[1].node_type = "LevelNodeStart"
    /\ scene_nodes[1].rotation.y = 900
    /\ emitted # Pending
    /\ "rotation" \in DOMAIN emitted.Node["startResponse"]

\* C29: for a Static or Sign node of any color, node_from_dict(node_to_dict(n)).color
\* equals n.color, also when a is 0.
C29_ColorRoundTrips ==
    (parsed # Pending /\ scene_nodes[1].node_type \in {"LevelNodeStatic", "LevelNodeSign"}) =>
        /\ parsed.ok
        /\ parsed.val.color = scene_nodes[1].color

(***************************************************************************)
(* Parent ids in the schema 2 editor (under SpecLevelEditor).              *)
(***************************************************************************)
\* every node of the list has parent_id = pid, and so on below each of them
RECURSIVE ParentIdsAgree(_, _)
ParentIdsAgree(nodes, pid) ==
    \A i \in 1..Len(nodes) :
        /\ nodes[i].parent_id = pid
        /\ ParentIdsAgree(nodes[i].children, nodes[i].node_id)

\* C26: in every state reached by open, new, add, duplicate and delete, every child of a
\* Group has the parent_id that is the node_id of the Group that holds it, and every
\* root node has parent_id 0.
C26_ParentIdsAgree == app = "LevelEditor" => ParentIdsAgree(scene_nodes, 0)

\* C26's case: nested.json was opened and a group with a child was duplicated: the copy
\* is a root and its child names the copy as its parent
C26_Witness ==
    /\ app = "LevelEditor"
    /\ level_file_path = "nested.json"
    /\ Len(scene_nodes) = 3
    /\ scene_nodes[3].node_type = "LevelNodeGroup"
    /\ scene_nodes[3].parent_id = 0
    /\ scene_nodes[3].children # <<>>
    /\ scene_nodes[3].children[1].parent_id = scene_nodes[3].node_id
    /\ scene_nodes[3].node_id # scene_nodes[1].node_id

(***************************************************************************)
(* The mode of a Gravity node in the schema 1 codec (under SpecCodec).     *)
(***************************************************************************)
\* C27: for a levelNodeGravity node whose mode from_json read from the input, to_json
\* emits the node's mode under the mode key: the mode survives a load followed by a save.
C27_GravityModeEmitted ==
    (emitted # Pending /\ parsed.val.type = "levelNodeGravity" /\ "mode" \in DOMAIN InputNested) =>
        /\ "mode" \in DOMAIN emitted.m["levelNodeGravity"].v
        /\ emitted.m["levelNodeGravity"].v["mode"] = JInt(parsed.val.mode)

(***************************************************************************)
(* The list widget of the schema 1 editor (under SpecMainWindow).          *)
(***************************************************************************)
\* C28: in every state reached by load, new, add, duplicate and remove the list widget
\* and self.nodes are parallel: they have the same length and the item at row i carries
\* nodes[i], so that on_remove_node deletes from nodes the node shown at the current row.
C28_ListParallelToNodes ==
    app = "MainWindow" =>
        /\ Len(node_list) = Len(self_nodes)
        /\ \A i \in 1..Len(node_list) : node_list[i].data = In(<<i>>)
        /\ current_item # 0 =>
               \A neighbour \in {"after", "before"} :
                   /\ on_remove_node(MW, neighbour).nodes = DelAt(self_nodes, current_item)
                   /\ Len(on_remove_node(MW, neighbour).node_list) = Len(self_nodes) - 1

\* C28's case: two nodes were added and the first was removed: the one item left
\* carries the one node left
C28_Witness ==
    /\ app = "MainWindow"
    /\ Len(self_nodes) = 1
    /\ self_nodes[1].id = "levelNodeStatic_1"
    /\ Len(node_list) = 1
    /\ node_list[1].data = In(<<1>>)
    /\ node_list[1].text = "levelNodeStatic_1 (levelNodeStatic)"

(***************************************************************************)
(* The selection after a property edit (under SpecLevelEditor).            *)
(***************************************************************************)
\* the forest is the same after each of the three update handlers on s
UpdatesChangeNoNode(s) ==
    /\ \A e \in PropEdits : _update_node_prop(s, e[1], e[2]).scene_nodes = s.scene_nodes
    /\ \A e \in VectorEdits : _update_node_vector(s, e[1], e[2], e[3]).scene_nodes = s.scene_nodes
    /\ \A e \in RotationEdits : _update_node_rotation(s, e[1], e[2]).scene_nodes = s.scene_nodes

====
